---- MODULE Spec2Model ----
(***************************************************************************)
(* Conversation orchestration of the ordering agent: AgentManager          *)
(* (SessionRouter), MainAgent (Orchestrator), GenericOrderAgent,           *)
(* BulkOrderAgent, LLMManager's classifier and the orders table.           *)
(*                                                                         *)
(* Texts (user inputs, keywords, stored field values) are sequences of     *)
(* one-character strings, so that lower(), split(), substring search and   *)
(* the digit regex are computed character by character as Python does.     *)
(* Replies are records whose msg field holds the fixed template text.      *)
(* Python dicts are functions whose DOMAIN is the set of keys present.     *)
(* order_data dicts are shared by reference in the source: they live in    *)
(* heap and the agents and the context hold addresses.                     *)
(***************************************************************************)
EXTENDS Integers, Sequences, FiniteSets, TLC

\* ------------------------------------------------------------------ texts

UpperCase == <<"A","B","C","D","E","F","G","H","I","J","K","L","M",
               "N","O","P","Q","R","S","T","U","V","W","X","Y","Z">>
LowerCase == <<"a","b","c","d","e","f","g","h","i","j","k","l","m",
               "n","o","p","q","r","s","t","u","v","w","x","y","z">>
Digits == <<"0","1","2","3","4","5","6","7","8","9">>
Whitespace == {" ", "\t", "\n"}

\* str.lower() on one character
LowerChar(c) ==
    IF \E i \in DOMAIN UpperCase : UpperCase[i] = c
    THEN LowerCase[CHOOSE i \in DOMAIN UpperCase : UpperCase[i] = c]
    ELSE c

\* str.lower()
Lower(t) == [i \in 1..Len(t) |-> LowerChar(t[i])]

IsDigit(c) == \E i \in DOMAIN Digits : Digits[i] = c
DigitVal(c) == (CHOOSE i \in DOMAIN Digits : Digits[i] = c) - 1

\* "k in t" on strings: k occurs in t as a contiguous substring
Contains(t, k) ==
    \E i \in 0..(Len(t) - Len(k)) : SubSeq(t, i + 1, i + Len(k)) = k

\* x in [list]
InList(x, l) == \E i \in DOMAIN l : l[i] = x

\* re.search(r'(\d+)', t): the leftmost maximal run of digits, <<>> for no match
DigitRunFrom(t, i) ==
    LET stop == CHOOSE j \in i..Len(t) :
                    /\ (j = Len(t) \/ ~IsDigit(t[j + 1]))
                    /\ \A m \in i..j : IsDigit(t[m])
    IN SubSeq(t, i, stop)
quantity_match(t) ==
    IF \E i \in 1..Len(t) : IsDigit(t[i])
    THEN DigitRunFrom(t, CHOOSE i \in 1..Len(t) :
                            IsDigit(t[i]) /\ \A m \in 1..(i - 1) : ~IsDigit(t[m]))
    ELSE <<>>

\* int(digits), when it returns
RECURSIVE int(_)
int(ds) ==
    IF ds = <<>> THEN 0
    ELSE 10 * int(SubSeq(ds, 1, Len(ds) - 1)) + DigitVal(ds[Len(ds)])

\* The longest digit string int() converts: CPython's default
\* sys.int_info.default_max_str_digits. int() of a longer one raises ValueError.
max_str_digits == 4300
int_raises(ds) == Len(ds) > max_str_digits

\* str.split(): the maximal runs of non-whitespace characters, in order
RECURSIVE SplitFrom(_, _, _, _)
SplitFrom(t, i, cur, acc) ==
    IF i > Len(t) THEN (IF cur = <<>> THEN acc ELSE Append(acc, cur))
    ELSE IF t[i] \in Whitespace
         THEN SplitFrom(t, i + 1, <<>>, IF cur = <<>> THEN acc ELSE Append(acc, cur))
         ELSE SplitFrom(t, i + 1, Append(cur, t[i]), acc)
split(t) == SplitFrom(t, 1, <<>>, <<>>)

\* " ".join(words)
RECURSIVE join(_)
join(ws) ==
    IF ws = <<>> THEN <<>>
    ELSE IF Len(ws) = 1 THEN ws[1]
    ELSE ws[1] \o <<" ">> \o join(Tail(ws))

\* ------------------------------------------------------- control vocabulary

\* agents.py:564
reset_tokens ==
    << <<"s","t","a","r","t"," ","o","v","e","r">>,
       <<"r","e","s","e","t">>,
       <<"n","e","w"," ","o","r","d","e","r">>,
       <<"r","e","s","t","a","r","t">> >>

\* agents.py:297, 470
affirmative_tokens ==
    << <<"y","e","s">>,
       <<"y","e","a","h">>,
       <<"y","e","p">>,
       <<"s","u","r","e">> >>

\* agents.py:311, 484
confirmation_tokens ==
    << <<"y","e","s">>,
       <<"y","e","a","h">>,
       <<"y","e","p">>,
       <<"s","u","r","e">>,
       <<"c","o","n","f","i","r","m">>,
       <<"o","k">> >>

\* "None", the brand_preference stored when no preference is given
txt_None == <<"N","o","n","e">>

\* ------------------------------------------------------------ classifier

bulk_keywords ==
    << <<"b","u","l","k">>,
       <<"w","h","o","l","e","s","a","l","e">>,
       <<"r","e","s","e","l","l","i","n","g">>,
       <<"b","u","s","i","n","e","s","s">>,
       <<"c","o","m","p","a","n","y">>,
       <<"o","f","f","i","c","e">>,
       <<"e","v","e","n","t">>,
       <<"c","o","n","f","e","r","e","n","c","e">>,
       <<"m","a","r","a","t","h","o","n">>,
       <<"o","n","b","o","a","r","d","i","n","g">>,
       <<"e","m","p","l","o","y","e","e">>,
       <<"t","e","a","m">>,
       <<"h","u","n","d","r","e","d">>,
       <<"t","h","o","u","s","a","n","d">>,
       <<"5","0","0">>,
       <<"1","0","0","0">>,
       <<"l","a","r","g","e"," ","q","u","a","n","t","i","t","y">>,
       <<"m","a","s","s"," ","o","r","d","e","r">> >>

generic_keywords ==
    << <<"p","e","r","s","o","n","a","l">>,
       <<"h","o","m","e">>,
       <<"i","n","d","i","v","i","d","u","a","l">>,
       <<"s","i","n","g","l","e">>,
       <<"o","n","e">>,
       <<"f","e","w">>,
       <<"s","m","a","l","l">>,
       <<"d","e","s","k">>,
       <<"l","a","m","p">>,
       <<"f","u","r","n","i","t","u","r","e">>,
       <<"e","l","e","c","t","r","o","n","i","c","s">>,
       <<"p","e","r","s","o","n","a","l"," ","u","s","e">> >>

txt_generic == <<"g","e","n","e","r","i","c">>
txt_bulk == <<"b","u","l","k">>

\* str.strip()
RECURSIVE lstrip(_)
lstrip(t) == IF t # <<>> /\ t[1] \in Whitespace THEN lstrip(Tail(t)) ELSE t
RECURSIVE rstrip(_)
rstrip(t) ==
    IF t # <<>> /\ t[Len(t)] \in Whitespace THEN rstrip(SubSeq(t, 1, Len(t) - 1)) ELSE t
strip(t) == rstrip(lstrip(t))

\* LLMManager._rule_based_classification (type_of_request is not read)
rule_based_classification(description) ==
    LET description_lower == Lower(description)
        qm == quantity_match(description)
    IN IF \E i \in DOMAIN bulk_keywords : Contains(description_lower, bulk_keywords[i])
       THEN txt_bulk
       ELSE IF \E i \in DOMAIN generic_keywords :
                    Contains(description_lower, generic_keywords[i])
       THEN txt_generic
       ELSE IF qm # <<>> /\ int(qm) >= 100 THEN txt_bulk
       ELSE IF qm # <<>> /\ int(qm) <= 50 THEN txt_generic
       ELSE txt_generic

\* LLMManager._rule_based_classification raises: no keyword is found and
\* int() raises on the first integer of the description.
rule_based_classification_raises(description) ==
    LET description_lower == Lower(description)
        qm == quantity_match(description)
    IN /\ ~\E i \in DOMAIN bulk_keywords : Contains(description_lower, bulk_keywords[i])
       /\ ~\E i \in DOMAIN generic_keywords :
                Contains(description_lower, generic_keywords[i])
       /\ qm # <<>>
       /\ int_raises(qm)

\* What the completion backend does with one request: it answers with some
\* content, or the call raises.
LLMReplies ==
    { txt_generic,
      <<" ","B","u","l","k","\n">>,
      <<"G","e","n","e","r","i","c",".">> }
LLMOutcomes ==
    {[kind |-> "content", content |-> c] : c \in LLMReplies}
        \cup {[kind |-> "raise", content |-> <<>>]}

\* classify_request taking an answer that contains one of the two words for
\* that word.
classify_request_containing(llm, description, outcome) ==
    IF ~llm THEN rule_based_classification(description)
    ELSE IF outcome.kind = "raise" THEN rule_based_classification(description)
    ELSE LET result == Lower(strip(outcome.content))
         IN IF Contains(result, txt_bulk) THEN txt_bulk
            ELSE IF Contains(result, txt_generic) THEN txt_generic
            ELSE rule_based_classification(description)

\* LLMManager.classify_request; llm is TRUE when self.llm is not None
classify_request(llm, description, outcome) ==
    IF ~llm THEN rule_based_classification(description)
    ELSE IF outcome.kind = "raise" THEN rule_based_classification(description)
    ELSE LET result == Lower(strip(outcome.content))
         IN IF InList(result, <<txt_generic, txt_bulk>>)
            THEN result
            ELSE rule_based_classification(description)

\* LLMManager.classify_request raises: every path but the return of a valid
\* answer ends in _rule_based_classification, outside a try or in the except
\* branch, so what it raises leaves classify_request.
classify_request_raises(llm, description, outcome) ==
    IF llm /\ outcome.kind # "raise"
           /\ InList(Lower(strip(outcome.content)), <<txt_generic, txt_bulk>>)
    THEN FALSE
    ELSE rule_based_classification_raises(description)

\* The requests classify_request sends to the backend: one invoke when there
\* is an llm, in no loop, and none in the except branch.
classify_request_requests(llm, outcome) == IF llm THEN 1 ELSE 0

\* ------------------------------------------------------------- Python dicts

EmptyDict == [k \in {} |-> <<>>]
Has(d, k) == k \in DOMAIN d
Put(d, k, v) == [x \in (DOMAIN d) \cup {k} |-> IF x = k THEN v ELSE d[x]]
Get(d, k, default) == IF k \in DOMAIN d THEN d[k] ELSE default
Del(d, k) == [x \in (DOMAIN d) \ {k} |-> d[x]]

\* str(n) for n >= 0, as an f-string renders an int
RECURSIVE str(_)
str(n) ==
    IF n < 10 THEN <<Digits[n + 1]>>
    ELSE str(n \div 10) \o <<Digits[(n % 10) + 1]>>

\* ------------------------------------------------------------- extraction

\* words[1:3] joined when there are at least three words, else the description
product_name_of(description) ==
    LET words == split(description)
    IN IF Len(words) >= 3 THEN join(SubSeq(words, 2, 3)) ELSE description

\* GenericOrderAgent._fallback_extraction, on the dict order_data
Generic_fallback_extraction(order_data, description) ==
    LET qm == quantity_match(description)
        d1 == IF qm # <<>> THEN Put(order_data, "quantity", int(qm)) ELSE order_data
    IN Put(d1, "product_name", product_name_of(description))

\* BulkOrderAgent._fallback_extraction
Bulk_fallback_extraction(order_data, description) ==
    LET qm == quantity_match(description)
        d1 == IF qm # <<>> THEN Put(order_data, "quantity", int(qm)) ELSE order_data
    IN Put(d1, "product_name", product_name_of(description))

\* the extract_order_details tool of GenericOrderAgent
extract_order_details(description) ==
    LET qm == quantity_match(description)
    IN [product_name |-> product_name_of(description),
        quantity |-> IF qm # <<>> THEN int(qm) ELSE 1]

\* the extract_bulk_order_details tool of BulkOrderAgent
extract_bulk_order_details(description) ==
    LET qm == quantity_match(description)
    IN [product_name |-> product_name_of(description),
        quantity |-> IF qm # <<>> THEN int(qm) ELSE 100]

\* int() raises in the extraction of either agent, tool or fallback
extraction_raises(description) ==
    LET qm == quantity_match(description)
    IN qm # <<>> /\ int_raises(qm)

\* The record replaced by what the tool returns instead of updated with it.
Update_replacing(d, extracted) ==
    Put(Put(EmptyDict, "product_name", extracted.product_name),
        "quantity", extracted.quantity)

\* dict.update(extracted) for the two keys a tool returns
Update(d, extracted) ==
    Put(Put(d, "product_name", extracted.product_name), "quantity", extracted.quantity)

\* ------------------------------------------------------------------ state

VARIABLES
    current_agent,  \* AgentManager.current_agent: a key of AgentManager.agents
    context,        \* AgentManager.context, a dict; its order_data is an address
    agents,         \* AgentManager.agents: per key, the agent's name, state and
                    \* whether agent_executor is set; MainAgent's order_data
                    \* (an address)
    heap,           \* the order_data dict objects, by address
    llm,            \* LLMManager.llm is not None
    orders,         \* rows of the orders table for this session, oldest first
    result,         \* how the last call of AgentManager.process_message ended
    abandoned,      \* history: the values of the records a reset abandoned in
                    \* collecting_brand or collecting_supplier, less what the
                    \* user has typed again since
    call,           \* a call outside a conversation, of
                    \* LLMManager.classify_request or of
                    \* BaseAgent.generate_final_output: its arguments, what the
                    \* backend does and, once made, what it returned
    managers,       \* the AgentManager objects of several sessions on one
                    \* database: each with its session_id, and which of them
                    \* ran process_message last
    db,             \* the tables of that database: orders and conversations
    threads         \* two concurrent calls of process_message on the
                    \* session: where each is, its input and its reply

vars == <<current_agent, context, agents, heap, llm, orders, result, abandoned, call,
          managers, db, threads>>

\* What the sessions on one database and the concurrent calls add.
beside == <<managers, db, threads>>

AgentKeys == {"MainAgent", "GenericOrderAgent", "BulkOrderAgent"}

\* Addresses of order_data dicts. Two references outlive a turn, MainAgent's
\* order_data and the context's, and a turn creates at most one dict.
\* GenericOrderAgent.order_data and BulkOrderAgent.order_data are rebound to
\* the context's dict when process_message starts (agents.py:270-271, 443-444)
\* and are read nowhere else: they are locals of the turn here.
Addr == 1..3

\* The session as one value, for the operators below.
St ==
    [current_agent |-> current_agent, context |-> context, agents |-> agents,
     heap |-> heap, llm |-> llm, orders |-> orders, result |-> result]

\* The address of a newly created dict: one no reference in live holds.
NewAddr(live) == CHOOSE a \in Addr : a \notin live /\ \A b \in Addr \ live : a <= b

\* Dicts no reference holds are gone, and an address says nothing beyond which
\* references are the same dict: MainAgent's dict is renumbered 1 and the
\* context's 1 when it is the same dict, 2 otherwise.
Collect(s) ==
    LET m == s.agents["MainAgent"].order_data
        c == s.context["order_data"]
    IN [s EXCEPT
            !.heap = [a \in Addr |->
                        CASE a = 1 -> s.heap[m]
                          [] a = 2 /\ c # m -> s.heap[c]
                          [] OTHER -> EmptyDict],
            !.agents["MainAgent"].order_data = 1,
            !.context = Put(@, "order_data", IF c = m THEN 1 ELSE 2)]

Returned(response) == [kind |-> "return", response |-> response, exc |-> "none"]
Raised(exc) == [kind |-> "raise", response |-> [msg |-> "none"], exc |-> exc]

\* ---------------------------------------------------------------- database

\* The keys save_order subscripts, in the order it evaluates them.
required_keys == <<"title", "description", "product_name", "quantity">>

\* DatabaseManager.save_order: "ok" and the row inserted, or the exception.
\* db_ok is FALSE when sqlite itself fails (connect, execute or commit).
save_order(order_data, db_ok) ==
    IF \E i \in DOMAIN required_keys : ~Has(order_data, required_keys[i])
    THEN [exc |-> "KeyError", row |-> <<>>]
    ELSE IF ~db_ok THEN [exc |-> "sqlite3.Error", row |-> <<>>]
    ELSE [exc |-> "none",
          row |-> [title |-> order_data["title"],
                   description |-> order_data["description"],
                   product_name |-> order_data["product_name"],
                   quantity |-> order_data["quantity"],
                   brand_preference |-> Get(order_data, "brand_preference", <<>>)]]

\* The keys of the dict generate_final_output builds, in the order of the
\* dict literal, with the key as json.dumps writes it and the value's default.
output_keys ==
    << [key |-> "title", text |-> <<"t","i","t","l","e">>],
       [key |-> "description", text |-> <<"d","e","s","c","r","i","p","t","i","o","n">>],
       [key |-> "product_name",
        text |-> <<"p","r","o","d","u","c","t","_","n","a","m","e">>],
       [key |-> "quantity", text |-> <<"q","u","a","n","t","i","t","y">>],
       [key |-> "brand_preference",
        text |-> <<"b","r","a","n","d","_","p","r","e","f","e","r","e","n","c","e">>] >>

\* A Python value with its type: a str or an int.
PyStr(t) == [type |-> "str", value |-> t]
PyInt(n) == [type |-> "int", value |-> n]

\* The two-character escapes of json: the character and the letter after the
\* backslash.
json_escapes ==
    << <<"\"", "\"">>, <<"\\", "\\">>, <<"\n", "n">>, <<"\r", "r">>,
       <<"\t", "t">>, <<"\f", "f">> >>

\* Characters outside ASCII in the texts explored, with the four hex digits
\* of their code point.
unicode_escapes ==
    << <<"é", <<"0","0","e","9">> >> >>

\* json.dumps of one character of a str (ensure_ascii is left True)
json_escape_char(c) ==
    IF \E i \in DOMAIN json_escapes : json_escapes[i][1] = c
    THEN <<"\\", json_escapes[CHOOSE i \in DOMAIN json_escapes :
                                    json_escapes[i][1] = c][2]>>
    ELSE IF \E i \in DOMAIN unicode_escapes : unicode_escapes[i][1] = c
    THEN <<"\\", "u">> \o unicode_escapes[CHOOSE i \in DOMAIN unicode_escapes :
                                                unicode_escapes[i][1] = c][2]
    ELSE <<c>>

RECURSIVE json_escape(_)
json_escape(t) ==
    IF t = <<>> THEN <<>> ELSE json_escape_char(Head(t)) \o json_escape(Tail(t))

\* json.dumps of a str without any escape: the characters between quotes.
json_dumps_str_unescaped(t) == <<"\"">> \o t \o <<"\"">>

\* json.dumps of a str
json_dumps_str(t) == <<"\"">> \o json_escape(t) \o <<"\"">>

\* json.dumps of a str or of an int
json_dumps_value(v) ==
    IF v.type = "str" THEN json_dumps_str(v.value) ELSE str(v.value)

\* json.dumps(output, indent=2) of a dict with at least one key, given as its
\* <<key text, value>> pairs in order
RECURSIVE json_dumps_items(_)
json_dumps_items(pairs) ==
    LET item == <<" ", " ">> \o json_dumps_str(pairs[1][1]) \o <<":", " ">>
                    \o json_dumps_value(pairs[1][2])
    IN IF Len(pairs) = 1 THEN item
       ELSE item \o <<",", "\n">> \o json_dumps_items(Tail(pairs))
json_dumps(pairs) == <<"{", "\n">> \o json_dumps_items(pairs) \o <<"\n", "}">>

txt_no_order_data ==
    <<"N","o"," ","o","r","d","e","r"," ","d","a","t","a"," ","a","v","a","i","l",
      "a","b","l","e">>

\* generate_final_output with every default taken: the text of an empty
\* output.
generate_final_output_of_defaults(order_data) ==
    IF order_data = EmptyDict
    THEN txt_no_order_data
    ELSE json_dumps(
            [i \in DOMAIN output_keys |->
                <<output_keys[i].text,
                  IF output_keys[i].key = "quantity" THEN PyInt(0) ELSE PyStr(<<>>)>>])

\* BaseAgent.generate_final_output: the text returned
generate_final_output(order_data) ==
    IF order_data = EmptyDict
    THEN txt_no_order_data
    ELSE json_dumps(
            [i \in DOMAIN output_keys |->
                LET k == output_keys[i].key
                IN <<output_keys[i].text,
                     IF k = "quantity"
                     THEN PyInt(Get(order_data, k, 0))
                     ELSE PyStr(Get(order_data, k, <<>>))>>])

\* json.loads of the text of an object whose values are strings and
\* integers: ok and the <<key, value>> pairs in order, or not ok when
\* JSONDecodeError is raised.
JsonWhitespace == {" ", "\t", "\n", "\r"}
JsonFail == [ok |-> FALSE, value |-> <<>>, next |-> 0]
JsonOk(value, next) == [ok |-> TRUE, value |-> value, next |-> next]

RECURSIVE json_skip(_, _)
json_skip(t, i) ==
    IF i <= Len(t) /\ t[i] \in JsonWhitespace THEN json_skip(t, i + 1) ELSE i

\* the scanner of a string from t[i], after the opening quote; acc holds the
\* characters read so far, fewer than i, and is evaluated at every step
RECURSIVE json_scan_string(_, _, _)
json_scan_string(t, i, acc) ==
    IF i > Len(t) \/ Len(acc) >= i THEN JsonFail
    ELSE IF t[i] = "\"" THEN JsonOk(acc, i + 1)
    ELSE IF t[i] = "\\"
    THEN IF i + 1 > Len(t) THEN JsonFail
         ELSE IF t[i + 1] = "u"
         THEN LET hex == Lower(SubSeq(t, i + 2, i + 5))
              IN IF i + 5 <= Len(t)
                    /\ \E k \in DOMAIN unicode_escapes : unicode_escapes[k][2] = hex
                 THEN json_scan_string(t, i + 6,
                        Append(acc, unicode_escapes[
                            CHOOSE k \in DOMAIN unicode_escapes :
                                unicode_escapes[k][2] = hex][1]))
                 ELSE JsonFail
         ELSE IF t[i + 1] = "/" THEN json_scan_string(t, i + 2, Append(acc, "/"))
         ELSE IF \E k \in DOMAIN json_escapes : json_escapes[k][2] = t[i + 1]
         THEN json_scan_string(t, i + 2,
                Append(acc, json_escapes[CHOOSE k \in DOMAIN json_escapes :
                                            json_escapes[k][2] = t[i + 1]][1]))
         ELSE JsonFail
    ELSE IF t[i] \in {"\n", "\r", "\t", "\f"} THEN JsonFail
    ELSE json_scan_string(t, i + 1, Append(acc, t[i]))

\* a value from t[i]: a string, or an integer written by digits alone
json_scan_value(t, i) ==
    IF i > Len(t) THEN JsonFail
    ELSE IF t[i] = "\"" THEN
        LET s == json_scan_string(t, i + 1, <<>>)
        IN IF s.ok THEN JsonOk(PyStr(s.value), s.next) ELSE JsonFail
    ELSE IF IsDigit(t[i]) THEN
        LET ds == DigitRunFrom(t, i)
            next == i + Len(ds)
        IN IF (Len(ds) > 1 /\ ds[1] = "0")
              \/ (next <= Len(t) /\ t[next] \in {".", "e", "E"})
              \/ int_raises(ds)
           THEN JsonFail
           ELSE JsonOk(PyInt(int(ds)), next)
    ELSE JsonFail

\* the members of an object from t[i], after "{" or ","
RECURSIVE json_scan_members(_, _, _)
json_scan_members(t, i, acc) ==
    LET k == json_skip(t, i)
        key == IF k <= Len(t) /\ t[k] = "\"" THEN json_scan_string(t, k + 1, <<>>)
               ELSE JsonFail
        colon == json_skip(t, key.next)
        v == IF key.ok /\ colon <= Len(t) /\ t[colon] = ":"
             THEN json_scan_value(t, json_skip(t, colon + 1))
             ELSE JsonFail
        end == json_skip(t, v.next)
        pairs == Append(acc, <<key.value, v.value>>)
    IN IF ~v.ok \/ end > Len(t) THEN JsonFail
       ELSE IF t[end] = "," THEN json_scan_members(t, end + 1, pairs)
       ELSE IF t[end] = "}" THEN JsonOk(pairs, end + 1)
       ELSE JsonFail

json_loads(t) ==
    LET open == json_skip(t, 1)
        members == IF open <= Len(t) /\ t[open] = "{"
                   THEN json_scan_members(t, open + 1, <<>>)
                   ELSE JsonFail
    IN IF members.ok /\ json_skip(t, members.next) > Len(t)
       THEN [ok |-> TRUE, value |-> members.value]
       ELSE [ok |-> FALSE, value |-> <<>>]

\* ------------------------------------------------------------ Orchestrator

\* MainAgent.process_message in state waiting_for_title
Main_waiting_for_title(s, user_input) ==
    LET me == s.agents["MainAgent"]
        od == me.order_data
    IN [s EXCEPT
            !.heap[od] = Put(@, "title", user_input),
            !.agents["MainAgent"].state = "waiting_for_description",
            !.context = Put(Put(Put(@, "current_agent", me.name),
                                "state", "waiting_for_description"),
                            "order_data", od),
            !.result = Returned([msg |-> "Describe the request."])]

\* MainAgent.process_message in state waiting_for_description; outcome is
\* what the completion backend does if it is asked.
Main_waiting_for_description(s, user_input, outcome) ==
    LET me == s.agents["MainAgent"]
        od == me.order_data
        order_type == classify_request(s.llm, user_input, outcome)
        generic == order_type = txt_generic
    IN IF classify_request_raises(s.llm, user_input, outcome)
       THEN [s EXCEPT
                !.heap[od] = Put(@, "description", user_input),
                !.agents["MainAgent"].state = "classifying",
                !.result = Raised("ValueError")]
       ELSE
       [s EXCEPT
            !.heap[od] = Put(Put(@, "description", user_input),
                             "order_type", order_type),
            !.agents["MainAgent"].state = "classifying",
            !.context = Put(Put(Put(Put(@, "order_data", od),
                                    "next_agent",
                                    IF generic THEN "GenericOrderAgent"
                                               ELSE "BulkOrderAgent"),
                                "current_agent", me.name),
                            "state", "handing_off"),
            !.result = Returned([msg |->
                IF generic
                THEN "Classified as generic order. Handing off to Generic Order Agent..."
                ELSE "Classified as bulk order. Handing off to Bulk Order Agent..."])]

\* Main_otherwise without the new dict: the title is asked for again and the
\* record the Orchestrator holds is kept.
Main_otherwise_keeping_record(s) ==
    LET od == s.agents["MainAgent"].order_data
    IN [s EXCEPT
            !.agents["MainAgent"].state = "waiting_for_title",
            !.context = Put(Put(@, "state", "waiting_for_title"), "order_data", od),
            !.result = Returned([msg |-> "Please provide a title for this order."])]

\* MainAgent.process_message in any other state
Main_otherwise(s) ==
    LET fresh == NewAddr({s.context["order_data"]})
    IN [s EXCEPT
            !.heap[fresh] = EmptyDict,
            !.agents["MainAgent"].state = "waiting_for_title",
            !.agents["MainAgent"].order_data = fresh,
            !.context = Put(Put(@, "state", "waiting_for_title"),
                            "order_data", fresh),
            !.result = Returned([msg |-> "Please provide a title for this order."])]

\* MainAgent.process_message. Returns the session after the call, result set.
MainAgent_process_message(s, user_input, outcome) ==
    CASE s.agents["MainAgent"].state = "waiting_for_title" ->
            Main_waiting_for_title(s, user_input)
      [] s.agents["MainAgent"].state = "waiting_for_description" ->
            Main_waiting_for_description(s, user_input, outcome)
      [] OTHER -> Main_otherwise(s)

\* ------------------------------------------------- Generic and Bulk agents

txt_items == <<"i","t","e","m","s">>
txt_NA == <<"N","/","A">>

\* What AgentExecutor.invoke does in collecting_details: it raises, or its
\* "output" is a text, or its "output" is the dict the extraction tool returns.
ExecutorOutcomes == {"raise", "text", "dict"}

\* GenericOrderAgent._generate_order_summary
Generic_generate_order_summary(order_data) ==
    [msg |-> "Here's the summary of your order:",
     title |-> Get(order_data, "title", txt_NA),
     description |-> Get(order_data, "description", txt_NA),
     product |-> Get(order_data, "product_name", txt_NA),
     quantity |-> IF Has(order_data, "quantity")
                  THEN str(order_data["quantity"]) ELSE txt_NA,
     preference |-> Get(order_data, "brand_preference", txt_None)]

\* BulkOrderAgent._generate_order_summary
Bulk_generate_order_summary(order_data) ==
    [msg |-> "Here's the summary of your bulk order:",
     title |-> Get(order_data, "title", txt_NA),
     description |-> Get(order_data, "description", txt_NA),
     product |-> Get(order_data, "product_name", txt_NA),
     quantity |-> IF Has(order_data, "quantity")
                  THEN str(order_data["quantity"]) ELSE txt_NA,
     preference |-> Get(order_data, "brand_preference", txt_None)]

\* The tail of both process_message methods: the context takes the agent's
\* name and state and self.order_data, and the response is returned.
Finish(s, key, order_data, response) ==
    [s EXCEPT
        !.context = Put(Put(Put(@, "current_agent", s.agents[key].name),
                            "state", s.agents[key].state),
                        "order_data", order_data),
        !.result = Returned(response)]

\* GenericOrderAgent.process_message in state collecting_details; executor is what
\* agent_executor.invoke does if it is called.
Generic_collecting_details(s, executor) ==
    LET key == "GenericOrderAgent"
        od == s.context["order_data"]
        d == s.heap[od]
        description == Get(d, "description", <<>>)
        d1 == IF s.agents[key].agent_executor
              THEN CASE executor = "dict" -> Update(d, extract_order_details(description))
                     [] executor = "text" -> d
                     [] OTHER -> Generic_fallback_extraction(d, description)
              ELSE Generic_fallback_extraction(d, description)
        extracts == ~s.agents[key].agent_executor \/ executor # "text"
    IN IF extracts /\ extraction_raises(description)
       THEN [s EXCEPT !.result = Raised("ValueError")]
       ELSE
       Finish([s EXCEPT !.heap[od] = d1, !.agents[key].state = "asking_brand_preference"],
              key, od,
              [msg |-> "Confirming order for {quantity} {product_name}. Any brand or vendor preference?",
               quantity |-> IF Has(d1, "quantity") THEN str(d1["quantity"]) ELSE <<>>,
               product_name |-> Get(d1, "product_name", txt_items)])

\* GenericOrderAgent.process_message in state asking_brand_preference
Generic_asking(s, user_input) ==
    LET key == "GenericOrderAgent"
        od == s.context["order_data"]
        d1 == Put(s.heap[od], "brand_preference", txt_None)
    IN IF InList(Lower(user_input), affirmative_tokens)
       THEN Finish([s EXCEPT !.agents[key].state = "collecting_brand"], key, od,
                   [msg |-> "Please specify the brand or vendor preference."])
       ELSE Finish([s EXCEPT !.heap[od] = d1, !.agents[key].state = "confirming"],
                   key, od, Generic_generate_order_summary(d1))

\* GenericOrderAgent.process_message in state collecting_brand
Generic_collecting(s, user_input) ==
    LET key == "GenericOrderAgent"
        od == s.context["order_data"]
        d1 == Put(s.heap[od], "brand_preference", user_input)
    IN Finish([s EXCEPT !.heap[od] = d1, !.agents[key].state = "confirming"],
              key, od, Generic_generate_order_summary(d1))

\* Generic_save_raised with the assignments of a successful save made before
\* the exception leaves: the record is replaced and the state set back.
Generic_save_raised_clearing(s, exc) ==
    LET fresh == NewAddr({s.context["order_data"], s.agents["MainAgent"].order_data})
    IN [s EXCEPT
            !.heap[fresh] = EmptyDict,
            !.agents["GenericOrderAgent"].state = "collecting_details",
            !.context = Put(@, "order_data", fresh),
            !.result = Raised(exc)]

\* save_order raised in GenericOrderAgent.process_message: the exception
\* leaves the method before anything is assigned.
Generic_save_raised(s, exc) == [s EXCEPT !.result = Raised(exc)]

\* GenericOrderAgent.process_message in state confirming once save_order has
\* returned: the final output is made from self.order_data as it is by then,
\* the state goes back, self.order_data is a new dict and the handoff is asked.
Generic_after_save(s) ==
    LET key == "GenericOrderAgent"
        od == s.context["order_data"]
        fresh == NewAddr({od, s.agents["MainAgent"].order_data})
    IN Finish([s EXCEPT
                  !.heap[fresh] = EmptyDict,
                  !.agents[key].state = "collecting_details",
                  !.context = Put(@, "next_agent", "MainAgent")],
              key, fresh,
              [msg |-> "Order confirmed and saved!",
               final_output |-> generate_final_output(s.heap[od])])

\* Generic_confirming with the else branch of the last alternative: an input
\* that is no confirmation token sends the handler back to collecting_details.
Generic_confirming_leaving(s, user_input, db_ok) ==
    IF InList(Lower(user_input), confirmation_tokens)
    THEN IF save_order(s.heap[s.context["order_data"]], db_ok).exc # "none"
         THEN Generic_save_raised(s, save_order(s.heap[s.context["order_data"]], db_ok).exc)
         ELSE Generic_after_save(
                [s EXCEPT !.orders = Append(@, save_order(s.heap[s.context["order_data"]], db_ok).row)])
    ELSE Finish([s EXCEPT !.agents["GenericOrderAgent"].state = "collecting_details"],
                "GenericOrderAgent", s.context["order_data"],
                [msg |-> "Let me know if you want to make any changes to the order."])

\* GenericOrderAgent.process_message in state confirming; db_ok is whether sqlite
\* accepts a write.
Generic_confirming(s, user_input, db_ok) ==
    LET key == "GenericOrderAgent"
        od == s.context["order_data"]
        d == s.heap[od]
        saved == save_order(d, db_ok)
    IN IF InList(Lower(user_input), confirmation_tokens)
       THEN IF saved.exc # "none"
            THEN Generic_save_raised(s, saved.exc)
            ELSE Generic_after_save([s EXCEPT !.orders = Append(@, saved.row)])
       ELSE Finish(s, key, od,
                   [msg |-> "Let me know if you want to make any changes to the order."])

\* GenericOrderAgent.process_message in any other state
Generic_otherwise(s) ==
    Finish([s EXCEPT !.agents["GenericOrderAgent"].state = "collecting_details"],
           "GenericOrderAgent", s.context["order_data"],
           [msg |-> "I'm here to help with your order. What would you like to order?"])

\* GenericOrderAgent.process_message extracting from the text of the turn
\* where the code extracts from the stored description.
GenericOrderAgent_process_message_of_text(s, user_input, executor, db_ok) ==
    LET state == s.agents["GenericOrderAgent"].state
    IN CASE state = "collecting_details" ->
                Generic_collecting_details(
                    [s EXCEPT !.heap[s.context["order_data"]] =
                                Put(@, "description", user_input)], executor)
         [] state = "asking_brand_preference" -> Generic_asking(s, user_input)
         [] state = "collecting_brand" -> Generic_collecting(s, user_input)
         [] state = "confirming" -> Generic_confirming(s, user_input, db_ok)
         [] OTHER -> Generic_otherwise(s)

\* GenericOrderAgent.process_message. self.order_data is the context's dict from the
\* first statement on.
GenericOrderAgent_process_message(s, user_input, executor, db_ok) ==
    LET state == s.agents["GenericOrderAgent"].state
    IN CASE state = "collecting_details" -> Generic_collecting_details(s, executor)
         [] state = "asking_brand_preference" -> Generic_asking(s, user_input)
         [] state = "collecting_brand" -> Generic_collecting(s, user_input)
         [] state = "confirming" -> Generic_confirming(s, user_input, db_ok)
         [] OTHER -> Generic_otherwise(s)

\* BulkOrderAgent.process_message in state collecting_details; executor is what
\* agent_executor.invoke does if it is called.
Bulk_collecting_details(s, executor) ==
    LET key == "BulkOrderAgent"
        od == s.context["order_data"]
        d == s.heap[od]
        description == Get(d, "description", <<>>)
        d1 == IF s.agents[key].agent_executor
              THEN CASE executor = "dict" -> Update(d, extract_bulk_order_details(description))
                     [] executor = "text" -> d
                     [] OTHER -> Bulk_fallback_extraction(d, description)
              ELSE Bulk_fallback_extraction(d, description)
        extracts == ~s.agents[key].agent_executor \/ executor # "text"
    IN IF extracts /\ extraction_raises(description)
       THEN [s EXCEPT !.result = Raised("ValueError")]
       ELSE
       Finish([s EXCEPT !.heap[od] = d1, !.agents[key].state = "asking_supplier_preference"],
              key, od,
              [msg |-> "Confirming bulk order of {quantity} {product_name}. Any supplier preference?",
               quantity |-> IF Has(d1, "quantity") THEN str(d1["quantity"]) ELSE <<>>,
               product_name |-> Get(d1, "product_name", txt_items)])

\* Bulk_asking storing the answer itself as the preference when it is not
\* affirmative.
Bulk_asking_storing_answer(s, user_input) ==
    LET key == "BulkOrderAgent"
        od == s.context["order_data"]
        d1 == Put(s.heap[od], "brand_preference", user_input)
    IN IF InList(Lower(user_input), affirmative_tokens)
       THEN Finish([s EXCEPT !.agents[key].state = "collecting_supplier"], key, od,
                   [msg |-> "Please specify the supplier preference."])
       ELSE Finish([s EXCEPT !.heap[od] = d1, !.agents[key].state = "confirming"],
                   key, od, Bulk_generate_order_summary(d1))

\* BulkOrderAgent.process_message in state asking_supplier_preference
Bulk_asking(s, user_input) ==
    LET key == "BulkOrderAgent"
        od == s.context["order_data"]
        d1 == Put(s.heap[od], "brand_preference", txt_None)
    IN IF InList(Lower(user_input), affirmative_tokens)
       THEN Finish([s EXCEPT !.agents[key].state = "collecting_supplier"], key, od,
                   [msg |-> "Please specify the supplier preference."])
       ELSE Finish([s EXCEPT !.heap[od] = d1, !.agents[key].state = "confirming"],
                   key, od, Bulk_generate_order_summary(d1))

\* BulkOrderAgent.process_message in state collecting_supplier
Bulk_collecting(s, user_input) ==
    LET key == "BulkOrderAgent"
        od == s.context["order_data"]
        d1 == Put(s.heap[od], "brand_preference", user_input)
    IN Finish([s EXCEPT !.heap[od] = d1, !.agents[key].state = "confirming"],
              key, od, Bulk_generate_order_summary(d1))

\* save_order raised in BulkOrderAgent.process_message: the exception leaves
\* the method before anything is assigned.
Bulk_save_raised(s, exc) == [s EXCEPT !.result = Raised(exc)]

\* BulkOrderAgent.process_message in state confirming once save_order has
\* returned: the final output is made from self.order_data as it is by then,
\* the state goes back, self.order_data is a new dict and the handoff is asked.
Bulk_after_save(s) ==
    LET key == "BulkOrderAgent"
        od == s.context["order_data"]
        fresh == NewAddr({od, s.agents["MainAgent"].order_data})
    IN Finish([s EXCEPT
                  !.heap[fresh] = EmptyDict,
                  !.agents[key].state = "collecting_details",
                  !.context = Put(@, "next_agent", "MainAgent")],
              key, fresh,
              [msg |-> "Bulk order confirmed and saved!",
               final_output |-> generate_final_output(s.heap[od])])

\* BulkOrderAgent.process_message in state confirming; db_ok is whether sqlite
\* accepts a write.
Bulk_confirming(s, user_input, db_ok) ==
    LET key == "BulkOrderAgent"
        od == s.context["order_data"]
        d == s.heap[od]
        saved == save_order(d, db_ok)
    IN IF InList(Lower(user_input), confirmation_tokens)
       THEN IF saved.exc # "none"
            THEN Bulk_save_raised(s, saved.exc)
            ELSE Bulk_after_save([s EXCEPT !.orders = Append(@, saved.row)])
       ELSE Finish(s, key, od,
                   [msg |-> "Let me know if you want to make any changes to the order."])

\* BulkOrderAgent.process_message in any other state
Bulk_otherwise(s) ==
    Finish([s EXCEPT !.agents["BulkOrderAgent"].state = "collecting_details"],
           "BulkOrderAgent", s.context["order_data"],
           [msg |-> "I'm here to help with your bulk order. What would you like to order?"])

\* BulkOrderAgent.process_message. self.order_data is the context's dict from the
\* first statement on.
BulkOrderAgent_process_message(s, user_input, executor, db_ok) ==
    LET state == s.agents["BulkOrderAgent"].state
    IN CASE state = "collecting_details" -> Bulk_collecting_details(s, executor)
         [] state = "asking_supplier_preference" -> Bulk_asking(s, user_input)
         [] state = "collecting_supplier" -> Bulk_collecting(s, user_input)
         [] state = "confirming" -> Bulk_confirming(s, user_input, db_ok)
         [] OTHER -> Bulk_otherwise(s)


\* ------------------------------------------------------------ AgentManager

\* The context dict of AgentManager.__init__ and of a reset.
InitialContext(order_data) ==
    [k \in {"current_agent", "state", "order_data", "type_of_request"} |->
        CASE k = "current_agent" -> "MainAgent"
          [] k = "state" -> "waiting_for_title"
          [] k = "order_data" -> order_data
          [] OTHER -> "None"]

IsResetPhrase(user_input) == InList(Lower(user_input), reset_tokens)

\* What the collaborators do during one turn.
Env(outcome, executor, db_ok) == [llm |-> outcome, executor |-> executor, db_ok |-> db_ok]

\* The handler of the current agent.
Dispatch(s, user_input, env) ==
    CASE s.current_agent = "MainAgent" ->
            MainAgent_process_message(s, user_input, env.llm)
      [] s.current_agent = "GenericOrderAgent" ->
            GenericOrderAgent_process_message(s, user_input, env.executor, env.db_ok)
      [] OTHER ->
            BulkOrderAgent_process_message(s, user_input, env.executor, env.db_ok)

\* Handoff that drops the signal and leaves the active handler as it is.
Handoff_staying(s) ==
    IF Has(s.context, "next_agent") /\ s.context["next_agent"] \in AgentKeys
    THEN [s EXCEPT !.context = Del(@, "next_agent")]
    ELSE s

\* Handoff without the del of next_agent: the signal stays in the context.
Handoff_keeping_signal(s) ==
    IF Has(s.context, "next_agent") /\ s.context["next_agent"] \in AgentKeys
    THEN [s EXCEPT
            !.current_agent = s.context["next_agent"],
            !.context = Put(@, "current_agent", s.context["next_agent"])]
    ELSE s

\* The handoff at the end of AgentManager.process_message.
Handoff(s) ==
    IF Has(s.context, "next_agent") /\ s.context["next_agent"] \in AgentKeys
    THEN [s EXCEPT
            !.current_agent = s.context["next_agent"],
            !.context = Del(Put(@, "current_agent", s.context["next_agent"]),
                            "next_agent")]
    ELSE s

\* AgentManager.process_message
process_message(s, user_input, env) ==
    IF IsResetPhrase(user_input)
    THEN LET fresh == NewAddr({s.agents["MainAgent"].order_data})
         IN Collect([s EXCEPT
                !.current_agent = "MainAgent",
                !.context = InitialContext(fresh),
                !.heap[fresh] = EmptyDict,
                !.result = Returned(
                    [msg |-> "Starting fresh! Please provide a title for your order."])])
    ELSE LET after == Dispatch(s, user_input, env)
         IN IF after.result.kind = "raise"
            THEN Collect(after)
            ELSE Collect(Handoff(after))

\* BaseAgent._initialize_agent for every agent: agent_executor is set when
\* there is an llm and building the executor does not raise; it is left as it
\* was otherwise. The three agents build it by the same call on the same llm:
\* built is the outcome of that call.
initialize_agents(s, built) ==
    [s EXCEPT !.agents =
        [a \in AgentKeys |->
            [@[a] EXCEPT !.agent_executor = IF s.llm /\ built THEN TRUE ELSE @]]]

\* switch_llm_provider putting every agent back in its first phase when it
\* initializes the agents again.
switch_llm_provider_resetting(s, available, built) ==
    initialize_agents(
        [s EXCEPT !.llm = available,
                  !.agents = [a \in AgentKeys |->
                        [@[a] EXCEPT !.state = IF a = "MainAgent"
                                               THEN "waiting_for_title"
                                               ELSE "collecting_details"]]],
        built)

\* AgentManager.switch_llm_provider; available is whether the new provider
\* has a key configured and its client could be built.
switch_llm_provider(s, available, built) ==
    initialize_agents([s EXCEPT !.llm = available], built)

\* -------------------------------------------------------------- user inputs

\* "reset"
in_reset ==
    <<"r","e","s","e","t">>
\* "Yes"
in_yes ==
    <<"Y","e","s">>
\* "I need 10 wooden desks"
in_generic ==
    <<"I"," ","n","e","e","d"," ","1","0"," ","w","o","o","d","e","n"," ","d","e","s",
      "k","s">>
\* "500 units for our marathon event"
in_bulk ==
    <<"5","0","0"," ","u","n","i","t","s"," ","f","o","r"," ","o","u","r"," ","m","a",
      "r","a","t","h","o","n"," ","e","v","e","n","t">>

\* The texts a user types in the sessions explored.
Inputs == {in_reset, in_yes, in_generic, in_bulk}

\* The sessions explored end once MaxOrders orders are persisted.
MaxOrders == 1

\* ------------------------------------------------------------------ actions

NoLLM == [kind |-> "raise", content |-> <<>>]

\* The outcomes of the collaborators a turn from s can meet: the backend is
\* asked only by classify_request with an llm, the executor only in
\* collecting_details of an agent that has one, sqlite only in confirming.
LLMAsked(s) ==
    IF s.llm /\ s.agents["MainAgent"].state = "waiting_for_description"
    THEN LLMOutcomes ELSE {NoLLM}
ExecutorAsked(s) ==
    IF s.agents[s.current_agent].agent_executor
       /\ s.agents[s.current_agent].state = "collecting_details"
    THEN ExecutorOutcomes ELSE {"raise"}
DbAsked(s) ==
    IF s.agents[s.current_agent].state = "confirming" THEN BOOLEAN ELSE {TRUE}

\* The texts and the quantities extraction can put into a record from text t.
TextsOf(t) == {t, product_name_of(t)}
QuantitiesOf(t) ==
    {extract_order_details(t)["quantity"], extract_bulk_order_details(t)["quantity"]}

\* The history after the turn on user_input from s: a reset in
\* collecting_brand or collecting_supplier adds the values of the record in
\* progress, any other input removes what it enters again.
Abandon(s, user_input) ==
    LET d == s.heap[s.context["order_data"]]
        fields == {"title", "description", "product_name", "brand_preference"}
    IN IF ~abandoned.tracking THEN abandoned
       ELSE IF IsResetPhrase(user_input)
       THEN IF /\ s.current_agent \in {"GenericOrderAgent", "BulkOrderAgent"}
               /\ s.agents[s.current_agent].state \in
                      {"collecting_brand", "collecting_supplier"}
            THEN [abandoned EXCEPT
                    !.texts = @ \cup {d[k] : k \in DOMAIN d \cap fields},
                    !.quantities = @ \cup {d[k] : k \in DOMAIN d \cap {"quantity"}}]
            ELSE abandoned
       ELSE [abandoned EXCEPT
                !.texts = @ \ TextsOf(user_input),
                !.quantities = @ \ QuantitiesOf(user_input)]

\* The session becomes n.
Becomes(n) ==
    /\ current_agent' = n.current_agent
    /\ context' = n.context
    /\ agents' = n.agents
    /\ heap' = n.heap
    /\ llm' = n.llm
    /\ orders' = n.orders
    /\ result' = n.result

Apply(n) ==
    /\ Becomes(n)
    /\ call' = call
    /\ UNCHANGED beside

\* AgentManager.__init__: available is whether LLMManager could build a client
InitialSession(available, built) ==
    LET names == [a \in AgentKeys |->
                    CASE a = "MainAgent" -> "Orchestrator"
                      [] a = "GenericOrderAgent" -> "Generic"
                      [] OTHER -> "Bulk"]
    IN initialize_agents(
        [current_agent |-> "MainAgent",
         context |-> InitialContext(2),
         agents |-> [a \in AgentKeys |->
                        IF a = "MainAgent"
                        THEN [name |-> names[a], state |-> "waiting_for_title",
                              agent_executor |-> FALSE, order_data |-> 1]
                        ELSE [name |-> names[a], state |-> "collecting_details",
                              agent_executor |-> FALSE]],
         heap |-> [a \in Addr |-> EmptyDict],
         llm |-> available,
         orders |-> <<>>,
         result |-> [kind |-> "none", response |-> [msg |-> "none"], exc |-> "none"]],
        built)

\* No other session, no database of several sessions, no concurrent calls.
NoManagers == [by |-> <<>>, last |-> 0]
NoDb == [orders |-> <<>>, conversations |-> <<>>]
NoThreads == <<>>

\* No call of the classifier outside the conversation.
NoCall == [made |-> FALSE, llm |-> FALSE, description |-> <<>>, outcome |-> NoLLM]

\* A new session; tracking is whether the history of abandoned records is kept.
Start(tracking) ==
    \E available \in BOOLEAN, built \in BOOLEAN :
        LET n == InitialSession(available, built)
        IN /\ current_agent = n.current_agent
           /\ context = n.context
           /\ agents = n.agents
           /\ heap = n.heap
           /\ llm = n.llm
           /\ orders = n.orders
           /\ result = n.result
           /\ abandoned = [tracking |-> tracking, texts |-> {}, quantities |-> {}]
           /\ call = NoCall
           /\ managers = NoManagers
           /\ db = NoDb
           /\ threads = NoThreads

Init == Start(FALSE)

InitAbandon == Start(TRUE)

\* A reset control phrase.
ResetTurn ==
    /\ Len(orders) < MaxOrders
    /\ \E user_input \in Inputs :
        /\ IsResetPhrase(user_input)
        /\ Apply(process_message(St, user_input, Env(NoLLM, "raise", TRUE)))
        /\ abandoned' = Abandon(St, user_input)

\* A turn the Orchestrator processes.
MainTurn ==
    /\ Len(orders) < MaxOrders
    /\ current_agent = "MainAgent"
    /\ \E user_input \in Inputs, outcome \in LLMAsked(St) :
        /\ ~IsResetPhrase(user_input)
        /\ Apply(process_message(St, user_input, Env(outcome, "raise", TRUE)))
        /\ abandoned' = Abandon(St, user_input)

\* A turn GenericOrderAgent processes.
GenericTurn ==
    /\ Len(orders) < MaxOrders
    /\ current_agent = "GenericOrderAgent"
    /\ \E user_input \in Inputs, executor \in ExecutorAsked(St), db_ok \in DbAsked(St) :
        /\ ~IsResetPhrase(user_input)
        /\ Apply(process_message(St, user_input, Env(NoLLM, executor, db_ok)))
        /\ abandoned' = Abandon(St, user_input)

\* A turn BulkOrderAgent processes.
BulkTurn ==
    /\ Len(orders) < MaxOrders
    /\ current_agent = "BulkOrderAgent"
    /\ \E user_input \in Inputs, executor \in ExecutorAsked(St), db_ok \in DbAsked(St) :
        /\ ~IsResetPhrase(user_input)
        /\ Apply(process_message(St, user_input, Env(NoLLM, executor, db_ok)))
        /\ abandoned' = Abandon(St, user_input)

\* AgentManager.switch_llm_provider
SwitchProvider ==
    /\ Len(orders) < MaxOrders
    /\ \E available \in BOOLEAN, built \in BOOLEAN :
        /\ Apply(switch_llm_provider(St, available, built))
        /\ UNCHANGED abandoned

\* The collaborators of a turn in which the backend and the executor raise (or
\* are absent) and sqlite accepts the write.
Quiet == Env(NoLLM, "raise", TRUE)

\* The session after the inputs of script, one turn each.
RECURSIVE Run(_, _)
Run(s, script) ==
    IF script = <<>> THEN s
    ELSE Run(process_message(s, Head(script), Quiet), Tail(script))

Next == ResetTurn \/ MainTurn \/ GenericTurn \/ BulkTurn \/ SwitchProvider

Spec == Init /\ [][Next]_vars

\* The same sessions, with the history of abandoned records kept.
SpecAbandon == InitAbandon /\ [][Next]_vars

\* ------------------------------------------- the classifier, call by call

\* "a small desk lamp"
d_lamp ==
    <<"a"," ","s","m","a","l","l"," ","d","e","s","k"," ","l","a","m","p">>
\* "need some bottles"
d_bottles ==
    <<"n","e","e","d"," ","s","o","m","e"," ","b","o","t","t","l","e","s">>
\* "Office party"
d_office_party ==
    <<"O","f","f","i","c","e"," ","p","a","r","t","y">>
\* "a desk for the office"
d_desk_office ==
    <<"a"," ","d","e","s","k"," ","f","o","r"," ","t","h","e"," ","o","f","f","i","c",
      "e">>
\* "a lamp for 120 people"
d_lamp_120 ==
    <<"a"," ","l","a","m","p"," ","f","o","r"," ","1","2","0"," ","p","e","o","p","l",
      "e">>
\* "wholesale 5 chairs"
d_wholesale_5 ==
    <<"w","h","o","l","e","s","a","l","e"," ","5"," ","c","h","a","i","r","s">>
\* "7 chairs then 300"
d_7_then_300 ==
    <<"7"," ","c","h","a","i","r","s"," ","t","h","e","n"," ","3","0","0">>
\* "300 chairs then 7"
d_300_then_7 ==
    <<"3","0","0"," ","c","h","a","i","r","s"," ","t","h","e","n"," ","7">>
\* " chairs"
txt_chairs ==
    <<" ","c","h","a","i","r","s">>

\* An integer of one digit more than int() converts
d_long_integer == [i \in 1..(max_str_digits + 1) |-> "7"]

\* The descriptions the classifier is called with: the empty one, with and
\* without keywords of either list, with a first integer on either side of 50
\* and of 100, and with one too long for int(), alone and after a keyword.
Descriptions ==
    { <<>>, d_lamp, d_bottles, d_office_party, d_desk_office, d_lamp_120,
      d_wholesale_5, d_7_then_300, d_300_then_7, in_generic, in_bulk,
      d_long_integer, txt_bulk \o d_long_integer }
        \cup {str(n) \o txt_chairs : n \in {20, 50, 51, 75, 99, 100, 120}}

\* "BULK"
reply_BULK ==
    <<"B","U","L","K">>
\* "  generic  "
reply_padded ==
    <<" "," ","g","e","n","e","r","i","c"," "," ">>
\* "generic or bulk"
reply_both ==
    <<"g","e","n","e","r","i","c"," ","o","r"," ","b","u","l","k">>

\* What the backend does with the request of a call: the answers of LLMReplies,
\* further answers that are or are not one of the two words, or an exception.
ClassifierOutcomes ==
    LLMOutcomes \cup
        {[kind |-> "content", content |-> c] :
            c \in {txt_bulk, reply_BULK, reply_padded, reply_both, <<>>}}

\* A call of classify_request about to be made: Init draws its arguments.
InitClassify ==
    /\ \E n \in {InitialSession(FALSE, FALSE)} :
            /\ current_agent = n.current_agent
            /\ context = n.context
            /\ agents = n.agents
            /\ heap = n.heap
            /\ llm = n.llm
            /\ orders = n.orders
            /\ result = n.result
    /\ abandoned = [tracking |-> FALSE, texts |-> {}, quantities |-> {}]
    /\ \E available \in BOOLEAN, description \in Descriptions :
        \E outcome \in IF available THEN ClassifierOutcomes ELSE {NoLLM} :
            call = [made |-> FALSE, llm |-> available,
                    description |-> description, outcome |-> outcome]
    /\ managers = NoManagers
    /\ db = NoDb
    /\ threads = NoThreads

\* LLMManager.classify_request is called and returns or raises.
ClassifyRequest ==
    /\ ~call.made
    /\ LET raised == classify_request_raises(call.llm, call.description, call.outcome)
       IN call' = [made |-> TRUE, llm |-> call.llm, description |-> call.description,
                   outcome |-> call.outcome,
                   requests |-> classify_request_requests(call.llm, call.outcome),
                   raised |-> raised,
                   result |-> IF raised THEN <<>>
                              ELSE classify_request(call.llm, call.description,
                                                    call.outcome)]
    /\ UNCHANGED <<current_agent, context, agents, heap, llm, orders, result, abandoned>>
    /\ UNCHANGED beside

NextClassify == ClassifyRequest

SpecClassify == InitClassify /\ [][NextClassify]_vars


\* ------------------------------------------------------------- properties

ResetInputs == {x \in Inputs : IsResetPhrase(x)}

\* The inputs that are not control phrases.
Typed == Inputs \ ResetInputs

ConfirmInputs == {x \in Typed : InList(Lower(x), confirmation_tokens)}
Unaffirmative == {x \in Typed : ~InList(Lower(x), affirmative_tokens)}

OrderHandlers == {"GenericOrderAgent", "BulkOrderAgent"}

\* The record the context holds.
Record(s) == s.heap[s.context["order_data"]]

\* An order handler is active and in confirming.
Confirming(s) ==
    /\ s.current_agent \in OrderHandlers
    /\ s.agents[s.current_agent].state = "confirming"

SavedReplies == {"Order confirmed and saved!", "Bulk order confirmed and saved!"}

\* C1: from every reachable state a reset phrase leaves the Orchestrator
\* active and in waiting_for_title, both in the context and in the
\* Orchestrator itself, with an empty record in the context and in the
\* Orchestrator, and a second reset right after changes nothing.
C1_ResetPostState ==
    \A r \in ResetInputs :
        LET a == Run(St, <<r>>)
        IN /\ a.current_agent = "MainAgent"
           /\ a.context["current_agent"] = "MainAgent"
           /\ a.context["state"] = "waiting_for_title"
           /\ a.agents["MainAgent"].state = "waiting_for_title"
           /\ Record(a) = EmptyDict
           /\ a.heap[a.agents["MainAgent"].order_data] = EmptyDict
           /\ Run(a, <<r>>) = a

\* C2: after a reset phrase, whatever the state before it, the next input that
\* is not a control phrase is stored as the title, the phase becomes
\* waiting_for_description and the reply is "Describe the request.".
C2_TitleAfterReset ==
    \A r \in ResetInputs, x \in Typed :
        LET b == Run(St, <<r, x>>)
        IN /\ Has(Record(b), "title")
           /\ Record(b)["title"] = x
           /\ b.context["state"] = "waiting_for_description"
           /\ b.agents["MainAgent"].state = "waiting_for_description"
           /\ b.result = Returned([msg |-> "Describe the request."])

\* C3: however confirming was reached, a confirmation token received there by
\* GenericOrderAgent or BulkOrderAgent persists the record once, replies with
\* the confirmation message and the final JSON, clears the record, puts the
\* handler back in collecting_details and makes the Orchestrator active (the
\* database accepting the write).
C3_ConfirmationPersists ==
    Confirming(St) =>
        \A y \in ConfirmInputs :
            LET a == Run(St, <<y>>)
            IN /\ a.result.kind = "return"
               /\ a.result.response.msg \in SavedReplies
               /\ a.result.response.final_output = generate_final_output(Record(St))
               /\ Len(a.orders) = Len(orders) + 1
               /\ Record(a) = EmptyDict
               /\ a.agents[current_agent].state = "collecting_details"
               /\ a.current_agent = "MainAgent"

\* "Wooden Desk Order"
in_title ==
    <<"W","o","o","d","e","n"," ","D","e","s","k"," ","O","r","d","e","r">>
\* "10 wooden desks for the new conference room."
in_conference ==
    <<"1","0"," ","w","o","o","d","e","n"," ","d","e","s","k","s"," ","f","o","r"," ",
      "t","h","e"," ","n","e","w"," ","c","o","n","f","e","r","e","n","c","e"," ","r",
      "o","o","m",".">>
\* "UrbanCraft"
in_brand ==
    <<"U","r","b","a","n","C","r","a","f","t">>
\* "wooden desks"
txt_wooden_desks ==
    <<"w","o","o","d","e","n"," ","d","e","s","k","s">>

\* C4: the six turns "I need 10 wooden desks", "Wooden Desk Order",
\* "10 wooden desks for the new conference room.", "Yes", "UrbanCraft", "Yes"
\* in a new session without a completion backend persist exactly one order,
\* with that title and description, product_name "wooden desks", quantity 10
\* and brand_preference "UrbanCraft", and leave the Orchestrator active.
C4_GenericScenario ==
    St = InitialSession(FALSE, FALSE) =>
        LET a == Run(St, <<in_generic, in_title, in_conference, in_yes, in_brand, in_yes>>)
        IN /\ a.orders = << [title |-> in_title,
                             description |-> in_conference,
                             product_name |-> txt_wooden_desks,
                             quantity |-> 10,
                             brand_preference |-> in_brand] >>
           /\ a.current_agent = "MainAgent"

\* The descriptions of the bulk scenario.
MarathonDescriptions ==
    {d \in Typed : /\ Contains(d, <<"5","0","0">>)
                   /\ Contains(d, <<"m","a","r","a","t","h","o","n"," ","e","v","e","n","t">>)}

\* What a non-affirmative answer to the supplier question followed by a
\* confirmation does from s: the preference is "None" in the record, and in
\* the order if one is saved.
NoSupplierSavesNone(s) ==
    \A x \in Unaffirmative, y \in ConfirmInputs, db_ok \in BOOLEAN :
        LET a == process_message(s, x, Quiet)
            b == process_message(a, y, Env(NoLLM, "raise", db_ok))
        IN /\ a.agents["BulkOrderAgent"].state = "confirming"
           /\ Get(Record(a), "brand_preference", <<>>) = txt_None
           /\ \/ b.orders = a.orders
              \/ /\ Len(b.orders) = Len(a.orders) + 1
                 /\ b.orders[Len(b.orders)].brand_preference = txt_None

AskingSupplier(s) ==
    /\ s.current_agent = "BulkOrderAgent"
    /\ s.agents["BulkOrderAgent"].state = "asking_supplier_preference"

AwaitingDescription(s) ==
    /\ s.current_agent = "MainAgent"
    /\ s.agents["MainAgent"].state = "waiting_for_description"

\* C5 as the specification words it: a description with "500" and "marathon
\* event" given in waiting_for_description makes BulkOrderAgent the active
\* handler whatever the classifier's backend does, and a non-affirmative answer
\* to the supplier question followed by a confirmation saves "None".
C5_BulkScenario ==
    /\ AwaitingDescription(St) =>
            \A d \in MarathonDescriptions, outcome \in LLMAsked(St) :
                process_message(St, d, Env(outcome, "raise", TRUE)).current_agent
                    = "BulkOrderAgent"
    /\ AskingSupplier(St) => NoSupplierSavesNone(St)

\* The backend gives the answer "generic" to a classification request.
AnswersGeneric(outcome) ==
    outcome.kind = "content" /\ Lower(strip(outcome.content)) = txt_generic

\* C5: a description with "500" and "marathon event" given in
\* waiting_for_description makes BulkOrderAgent the active handler unless a
\* completion backend is set and answers "generic"; a non-affirmative answer
\* to the supplier question puts "None" in the record, and an order the
\* confirmation after it saves has brand_preference "None".
C5_BulkScenarioUnlessBackendSaysGeneric ==
    /\ AwaitingDescription(St) =>
            \A d \in MarathonDescriptions, outcome \in LLMAsked(St) :
                ~(llm /\ AnswersGeneric(outcome)) =>
                    process_message(St, d, Env(outcome, "raise", TRUE)).current_agent
                        = "BulkOrderAgent"
    /\ AskingSupplier(St) => NoSupplierSavesNone(St)

\* A bulk order with a marathon description was saved without a supplier.
C5_SavedWithoutSupplier ==
    /\ orders # <<>>
    /\ orders[Len(orders)].description \in MarathonDescriptions
    /\ orders[Len(orders)].brand_preference = txt_None
    /\ result.kind = "return"
    /\ result.response.msg = "Bulk order confirmed and saved!"

\* The values of an order.
RowTexts(row) == {row.title, row.description, row.product_name, row.brand_preference}

\* C6: once a reset phrase was issued while GenericOrderAgent or
\* BulkOrderAgent was collecting the preference, no order persisted later
\* holds a value of the record that was in progress (title, description,
\* product_name, quantity, brand_preference), unless the user typed it again.
C6_AbandonedNeverPersisted ==
    [][Len(orders') > Len(orders) =>
            LET row == orders'[Len(orders')]
            IN /\ RowTexts(row) \cap abandoned.texts = {}
               /\ row.quantity \notin abandoned.quantities]_vars

\* An order was persisted while values of an abandoned record were still not
\* typed again.
C6_SavedAfterAbandon ==
    /\ abandoned.tracking
    /\ abandoned.texts # {}
    /\ abandoned.quantities # {}
    /\ orders # <<>>
    /\ result.kind = "return"
    /\ result.response.msg \in SavedReplies

\* The longest run of inputs after a reset that C7 looks at.
ScriptLen == 4

\* The runs of at most n inputs that are not control phrases.
Scripts(n) == UNION {[1..k -> Typed] : k \in 0..n}

Elems(w) == {w[i] : i \in DOMAIN w}

\* C7: the title and the description of an order persisted after a reset are
\* texts entered after that reset, in whatever state the reset was issued.
C7_FreshAfterReset ==
    \A r \in ResetInputs, w \in Scripts(ScriptLen) :
        w # <<>> =>
            LET before == Run(St, <<r>> \o SubSeq(w, 1, Len(w) - 1))
                after == Run(before, <<w[Len(w)]>>)
            IN Len(after.orders) > Len(before.orders) =>
                    /\ after.orders[Len(after.orders)].title \in Elems(w)
                    /\ after.orders[Len(after.orders)].description \in Elems(w)

\* The ways to an order of a handler: going on with the order in progress, or
\* a new order after a reset, with the turns the Orchestrator may need before
\* the description is taken.
WaysToOrder(description) ==
    LET x == in_generic
        rest == <<description, x, x, in_yes>>
    IN { <<in_yes>>, <<x, in_yes>>, <<x, x, in_yes>>,
         <<in_reset>> \o rest,
         <<in_reset, x>> \o rest,
         <<in_reset, x, x>> \o rest }

\* Some way to an order of the handler persists one from s.
CanPersist(s, description, reply) ==
    \E w \in WaysToOrder(description) :
        LET a == Run(s, w)
        IN /\ Len(a.orders) > Len(s.orders)
           /\ a.result.kind = "return"
           /\ a.result.response.msg = reply

\* C8: from every reachable state there are inputs after which a generic
\* order is persisted, and inputs after which a bulk order is persisted.
C8_ProgressPossible ==
    /\ CanPersist(St, in_generic, "Order confirmed and saved!")
    /\ CanPersist(St, in_bulk, "Bulk order confirmed and saved!")

\* The handler is past collecting_details and is not working on a record that
\* save_order takes.
Stuck(s, handler) ==
    /\ s.agents[handler].state # "collecting_details"
    /\ \/ s.current_agent # handler
       \/ \E i \in DOMAIN required_keys : ~Has(Record(s), required_keys[i])

\* A stuck handler stays stuck and persists nothing, whatever the inputs:
\* the states where C8 fails are no artefact of WaysToOrder.
StuckForever ==
    [][\A handler \in OrderHandlers :
            Stuck(St, handler) =>
                /\ Stuck(St', handler)
                /\ current_agent = handler => orders' = orders]_vars

\* Outside the stuck states of a handler, some way of WaysToOrder persists an
\* order of that handler.
ProgressUnlessStuck ==
    /\ ~Stuck(St, "GenericOrderAgent") =>
            CanPersist(St, in_generic, "Order confirmed and saved!")
    /\ ~Stuck(St, "BulkOrderAgent") =>
            CanPersist(St, in_bulk, "Bulk order confirmed and saved!")

\* save_order fails on the record of s with a database that is db_ok.
SaveFails(s, db_ok) == save_order(Record(s), db_ok).exc # "none"

\* C9: when save_order fails in a confirmation turn, process_message returns
\* a reply that reports the save error; it does not raise.
C9_SaveFailureReported ==
    Confirming(St) =>
        \A y \in ConfirmInputs, db_ok \in BOOLEAN :
            SaveFails(St, db_ok) =>
                LET a == process_message(St, y, Env(NoLLM, "raise", db_ok))
                IN /\ a.result.kind = "return"
                   /\ a.result.response.msg = "Error saving order"

\* C10: when save_order fails in a confirmation turn, the record keeps all its
\* fields, the handler stays in confirming, the active handler is the same,
\* the context holds no next_agent and nothing is persisted; a confirmation
\* token after it saves that same record if save_order then succeeds.
C10_SaveFailureKeepsRecord ==
    Confirming(St) =>
        \A y \in ConfirmInputs, db_ok \in BOOLEAN :
            SaveFails(St, db_ok) =>
                LET a == process_message(St, y, Env(NoLLM, "raise", db_ok))
                IN /\ Record(a) = Record(St)
                   /\ a.agents[current_agent].state = "confirming"
                   /\ a.current_agent = current_agent
                   /\ a.context["current_agent"] = context["current_agent"]
                   /\ ~Has(a.context, "next_agent")
                   /\ a.orders = orders
                   /\ \A y2 \in ConfirmInputs, again \in BOOLEAN :
                        LET b == process_message(a, y2, Env(NoLLM, "raise", again))
                            saved == save_order(Record(St), again)
                        IN b.orders = IF saved.exc = "none"
                                      THEN Append(orders, saved.row)
                                      ELSE orders

\* A confirmation turn ended with sqlite refusing a record that has every
\* field.
C10_SaveFailed ==
    /\ Confirming(St)
    /\ result.kind = "raise"
    /\ result.exc = "sqlite3.Error"
    /\ ~SaveFails(St, TRUE)

\* An order handler is active and in collecting_details.
CollectingDetails(s) ==
    /\ s.current_agent \in OrderHandlers
    /\ s.agents[s.current_agent].state = "collecting_details"

\* C11: after a collecting_details turn the record holds both product_name
\* and quantity, whatever the description and whether extraction ran through
\* the agent executor or through the fallback.
C11_ExtractionComplete ==
    CollectingDetails(St) =>
        \A x \in Typed, executor \in ExecutorAsked(St) :
            LET a == process_message(St, x, Env(NoLLM, executor, TRUE))
            IN /\ Has(Record(a), "product_name")
               /\ Has(Record(a), "quantity")

\* C12: when the description holds no integer literal, the collecting_details
\* turn sets quantity to 1 in GenericOrderAgent and to 100 in BulkOrderAgent.
C12_DefaultQuantity ==
    (/\ CollectingDetails(St)
     /\ quantity_match(Get(Record(St), "description", <<>>)) = <<>>) =>
        \A x \in Typed, executor \in ExecutorAsked(St) :
            LET a == process_message(St, x, Env(NoLLM, executor, TRUE))
            IN /\ Has(Record(a), "quantity")
               /\ Record(a)["quantity"] =
                        IF current_agent = "GenericOrderAgent" THEN 1 ELSE 100

\* The backend's answer of a call is one of the two words once trimmed and
\* lower-cased.
ValidAnswer(outcome) ==
    /\ outcome.kind = "content"
    /\ Lower(strip(outcome.content)) \in {txt_generic, txt_bulk}

\* C13: whatever the description, with or without a backend and whatever the
\* backend answers or raises, classify_request does not raise and returns
\* "generic" or "bulk".
C13_ClassifierTotal ==
    call.made => ~call.raised /\ call.result \in {txt_generic, txt_bulk}

HasKeyword(description, keywords) ==
    \E i \in DOMAIN keywords : Contains(Lower(description), keywords[i])

\* The integer written by the digits ds is at least 100: it has three digits
\* or more after its leading zeros.
RECURSIVE Significant(_)
Significant(ds) == IF ds # <<>> /\ ds[1] = "0" THEN Significant(Tail(ds)) ELSE ds
AtLeast100(ds) == Len(Significant(ds)) >= 3

\* The class by the priority C14 states.
ClassByPriority(description) ==
    LET first == quantity_match(description)
    IN CASE HasKeyword(description, bulk_keywords) -> txt_bulk
         [] ~HasKeyword(description, bulk_keywords)
            /\ HasKeyword(description, generic_keywords) -> txt_generic
         [] OTHER ->
            IF first # <<>> /\ AtLeast100(first) THEN txt_bulk ELSE txt_generic

\* C14: without a backend the class is bulk when the lower-cased description
\* holds a bulk keyword, else generic when it holds a generic keyword, else
\* bulk when its first integer is at least 100, else generic (no integer, or
\* one below 100); "500 units for our marathon event" is bulk,
\* "a small desk lamp" and the empty description are generic.
C14_RuleBasedPriority ==
    (call.made /\ ~call.llm) =>
        /\ ~call.raised
        /\ call.result = ClassByPriority(call.description)
        /\ call.description = in_bulk => call.result = txt_bulk
        /\ call.description \in {d_lamp, <<>>} => call.result = txt_generic

\* C15: with a backend, classify_request sends at most one request; it
\* returns the answer, trimmed and lower-cased, when that is "generic" or
\* "bulk"; for any other answer and when the backend raises it ends as the
\* rules end for the description: with their class, or raising as they do.
C15_BackendAnswerOrRules ==
    (call.made /\ call.llm) =>
        /\ call.requests <= 1
        /\ IF ValidAnswer(call.outcome)
           THEN ~call.raised /\ call.result = Lower(strip(call.outcome.content))
           ELSE /\ call.raised = rule_based_classification_raises(call.description)
                /\ ~call.raised =>
                        call.result = rule_based_classification(call.description)

\* A call was made whose backend gave a valid answer that is not what the
\* rules give.
C15_BackendOverrules ==
    /\ call.made
    /\ call.llm
    /\ ValidAnswer(call.outcome)
    /\ call.requests = 1
    /\ ~rule_based_classification_raises(call.description)
    /\ call.result # rule_based_classification(call.description)

\* The handler the class names.
HandlerOf(order_type) ==
    IF order_type = txt_generic THEN "GenericOrderAgent" ELSE "BulkOrderAgent"

\* The descriptions typed in waiting_for_description: the inputs of the
\* sessions, and an integer too long for int().
TypedDescriptions == Typed \cup {d_long_integer}

\* C16: the turn of the Orchestrator in waiting_for_description stores the
\* input as description and the classifier's result as order_type and makes
\* GenericOrderAgent the active handler when the result is generic,
\* BulkOrderAgent otherwise; whenever GenericOrderAgent is active the record's
\* order_type is generic, whenever BulkOrderAgent is active it is bulk.
C16_HandoffByClass ==
    /\ AwaitingDescription(St) =>
            \A x \in TypedDescriptions, outcome \in LLMAsked(St) :
                LET a == process_message(St, x, Env(outcome, "raise", TRUE))
                IN /\ a.result.kind = "return"
                   /\ Get(Record(a), "description", <<>>) = x
                   /\ Has(Record(a), "order_type")
                   /\ Record(a)["order_type"] = classify_request(St.llm, x, outcome)
                   /\ a.current_agent = HandlerOf(Record(a)["order_type"])
    /\ current_agent = "GenericOrderAgent" =>
            Get(Record(St), "order_type", <<>>) = txt_generic
    /\ current_agent = "BulkOrderAgent" =>
            Get(Record(St), "order_type", <<>>) = txt_bulk

\* What the Orchestrator collects.
Collected == {"title", "description", "order_type"}
Kept(d) == [k \in DOMAIN d \cap Collected |-> d[k]]

\* The record the context holds after the step.
RecordNext == heap'[context'["order_data"]]

in_RESET ==
    <<"R","E","S","E","T">>
\* "Start Over"
in_Start_Over ==
    <<"S","t","a","r","t"," ","O","v","e","r">>
\* " reset "
in_reset_padded ==
    <<" ","r","e","s","e","t"," ">>

\* Reset phrases as typed: a token, in another case, between blanks.
ResetPhrases == {in_reset, in_RESET, in_Start_Over, in_reset_padded}

\* Some record holds x as the title, the description or the preference.
Stores(s, x) ==
    \E a \in Addr, k \in {"title", "description", "brand_preference"} :
        Has(s.heap[a], k) /\ s.heap[a][k] = x

\* C18: in every state a reset phrase is answered by the reset itself and is
\* not passed to a handler: no handler changes phase, the phrase is stored as
\* no title, description or preference, and no order is persisted.
C18_ResetHasPriority ==
    \A r \in ResetPhrases, executor \in ExecutorAsked(St), db_ok \in DbAsked(St) :
        LET a == process_message(St, r, Env(NoLLM, executor, db_ok))
        IN /\ a.result = Returned(
                    [msg |-> "Starting fresh! Please provide a title for your order."])
           /\ a.agents = St.agents
           /\ ~Stores(a, r)
           /\ a.orders = St.orders

\* "YES"
in_YES ==
    <<"Y","E","S">>
\* " yes "
in_yes_padded ==
    <<" ","y","e","s"," ">>
\* "Yes, from UrbanCraft."
in_yes_from ==
    <<"Y","e","s",","," ","f","r","o","m"," ","U","r","b","a","n","C","r","a","f","t",".">>

\* A handler is active in a phase that looks for an affirmative or a
\* confirmation token.
AwaitingToken(s) ==
    /\ s.current_agent \in OrderHandlers
    /\ s.agents[s.current_agent].state \in
            {"asking_brand_preference", "asking_supplier_preference", "confirming"}

\* C19: a reset token in upper case or between blanks resets as the token
\* does; where a handler looks for an affirmative or a confirmation token,
\* "YES" and " yes " are taken as "yes" is; "Yes, from UrbanCraft." is not: it
\* does not ask for the brand and does not save.
C19_TokensTrimmed ==
    /\ \A r \in {in_RESET, in_reset_padded} : Run(St, <<r>>) = Run(St, <<in_reset>>)
    /\ AwaitingToken(St) =>
            \A db_ok \in DbAsked(St) :
                LET env == Env(NoLLM, "raise", db_ok)
                    yes == process_message(St, affirmative_tokens[1], env)
                    from == process_message(St, in_yes_from, env)
                IN /\ \A y \in {in_YES, in_yes_padded} :
                            process_message(St, y, env) = yes
                   /\ from.agents[St.current_agent].state = "confirming"
                   /\ from.orders = St.orders

\* C20: in every state, switching the provider, whether the new one is
\* available or not and whether the executors can be built or not, leaves the
\* active handler, the phase of every agent, the context, every record and
\* the orders as they are.
C20_SwitchKeepsConversation ==
    \A available \in BOOLEAN, built \in BOOLEAN :
        LET a == switch_llm_provider(St, available, built)
        IN /\ a.current_agent = St.current_agent
           /\ \A k \in AgentKeys :
                /\ a.agents[k].state = St.agents[k].state
                /\ a.agents[k].name = St.agents[k].name
           /\ a.agents["MainAgent"].order_data = St.agents["MainAgent"].order_data
           /\ a.context = St.context
           /\ a.heap = St.heap
           /\ a.orders = St.orders

\* An order is about to be confirmed in a session switched to a provider
\* that is not available: the executors of the former provider remain.
C20_SwitchedBeforeConfirming ==
    /\ Confirming(St)
    /\ Collected \subseteq DOMAIN Record(St)
    /\ ~llm
    /\ agents[current_agent].agent_executor
    /\ switch_llm_provider(St, TRUE, TRUE).llm

\* ----------------------------------------- the final output, call by call

\* 5" \desk
r_quotes ==
    <<"5","\""," ","\\","d","e","s","k">>
\* two lines with a tab: "blue,\n\tnot red"
r_lines ==
    <<"b","l","u","e",",","\n","\t","n","o","t"," ","r","e","d">>
\* "café chairs"
r_cafe ==
    <<"c","a","f","é"," ","c","h","a","i","r","s">>
\* a preference that reads as JSON: ", "quantity": 7}
r_json ==
    <<"\"",","," ","\"","q","u","a","n","t","i","t","y","\"",":"," ","7","}">>

\* The records generate_final_output is called with: the five fields
\* populated, with and without the order_type of the classification.
OutputRecords ==
    { [k \in {"title", "description", "product_name", "quantity", "brand_preference"}
            \cup extra |->
        CASE k = "title" -> title
          [] k = "description" -> description
          [] k = "product_name" -> product_name
          [] k = "quantity" -> quantity
          [] k = "brand_preference" -> brand_preference
          [] OTHER -> txt_bulk] :
        title \in {in_title, r_quotes},
        description \in {in_conference, r_lines},
        product_name \in {txt_wooden_desks, r_cafe},
        quantity \in {0, 1, 10, 500},
        brand_preference \in {txt_None, in_brand, r_json},
        extra \in {{}, {"order_type"}} }

\* A call of generate_final_output about to be made on a record.
InitOutput ==
    /\ \E n \in {InitialSession(FALSE, FALSE)} :
            /\ current_agent = n.current_agent
            /\ context = n.context
            /\ agents = n.agents
            /\ heap = n.heap
            /\ llm = n.llm
            /\ orders = n.orders
            /\ result = n.result
    /\ abandoned = [tracking |-> FALSE, texts |-> {}, quantities |-> {}]
    /\ \E order_data \in OutputRecords :
            call = [made |-> FALSE, loaded |-> FALSE, order_data |-> order_data]
    /\ managers = NoManagers
    /\ db = NoDb
    /\ threads = NoThreads

\* BaseAgent.generate_final_output is called and returns.
GenerateFinalOutput ==
    /\ ~call.made
    /\ call' = [made |-> TRUE, loaded |-> FALSE, order_data |-> call.order_data,
                output |-> generate_final_output(call.order_data)]
    /\ UNCHANGED <<current_agent, context, agents, heap, llm, orders, result, abandoned>>
    /\ UNCHANGED beside

\* The text returned is given to json.loads.
LoadFinalOutput ==
    /\ call.made
    /\ ~call.loaded
    /\ call' = [made |-> TRUE, loaded |-> TRUE, order_data |-> call.order_data,
                output |-> call.output, parsed |-> json_loads(call.output)]
    /\ UNCHANGED <<current_agent, context, agents, heap, llm, orders, result, abandoned>>
    /\ UNCHANGED beside

NextOutput == GenerateFinalOutput \/ LoadFinalOutput

SpecOutput == InitOutput /\ [][NextOutput]_vars

\* C21: the text generate_final_output returns for a record with the five
\* fields parses as an object whose keys are title, description,
\* product_name, quantity, brand_preference in that order and no other, whose
\* quantity is the int of the record and whose other values are the strs of
\* the record.
C21_FinalOutputRoundTrip ==
    (call.made /\ call.loaded) =>
        /\ call.parsed.ok
        /\ Len(call.parsed.value) = Len(output_keys)
        /\ \A i \in DOMAIN output_keys :
            LET k == output_keys[i].key
                pair == call.parsed.value[i]
            IN /\ pair[1] = output_keys[i].text
               /\ pair[2].type = IF k = "quantity" THEN "int" ELSE "str"
               /\ pair[2].value = call.order_data[k]

\* The output of a record that has an order_type and texts json.dumps
\* escapes was parsed.
C21_EscapedRecordParsed ==
    /\ call.made
    /\ call.loaded
    /\ Has(call.order_data, "order_type")
    /\ call.order_data["title"] = r_quotes
    /\ call.order_data["description"] = r_lines
    /\ call.order_data["product_name"] = r_cafe
    /\ call.order_data["brand_preference"] = r_json
    /\ call.order_data["quantity"] = 500
    /\ call.parsed.ok

\* ------------------------------------------ several sessions, one database

\* The session_id each AgentManager is constructed with.
SessionIds == <<"session-1", "session-2">>

\* What the users of these sessions type.
SessionInputs == {in_yes, in_generic}

\* The sessions are explored until the conversations table has this many rows.
MaxConversations == 6

\* DatabaseManager.save_order stamping every row with the first session_id.
insert_order_unstamped(d, session_id, row) ==
    [d EXCEPT !.orders = Append(@, [session_id |-> SessionIds[1], row |-> row])]

\* DatabaseManager.save_order on the tables: the row gets the session_id
\* the call is given.
insert_order(d, session_id, row) ==
    [d EXCEPT !.orders = Append(@, [session_id |-> session_id, row |-> row])]

\* DatabaseManager.log_conversation
log_conversation(d, session_id, user_input, chatbot_response, agent) ==
    [d EXCEPT !.conversations =
        Append(@, [session_id |-> session_id, user_input |-> user_input,
                   chatbot_response |-> chatbot_response, agent |-> agent])]

\* One AgentManager per session_id, all on one DatabaseManager.
InitSessions ==
    /\ \E n \in {InitialSession(FALSE, FALSE)} :
            /\ current_agent = n.current_agent
            /\ context = n.context
            /\ agents = n.agents
            /\ heap = n.heap
            /\ llm = n.llm
            /\ orders = n.orders
            /\ result = n.result
            /\ managers = [by |-> [i \in DOMAIN SessionIds |->
                                    [session_id |-> SessionIds[i], session |-> n]],
                           last |-> 0]
    /\ abandoned = [tracking |-> FALSE, texts |-> {}, quantities |-> {}]
    /\ call = NoCall
    /\ db = NoDb
    /\ threads = NoThreads

\* The rows a turn of session m adds: save_order's row when the turn
\* persisted an order, then log_interaction's row when a handler returned.
SessionRows(d, m, n, user_input) ==
    LET d1 == IF Len(n.orders) > Len(m.session.orders)
              THEN insert_order(d, m.session_id, n.orders[Len(n.orders)])
              ELSE d
    IN IF ~IsResetPhrase(user_input) /\ n.result.kind = "return"
       THEN log_conversation(d1, m.session_id, user_input, n.result.response,
                             m.session.agents[m.session.current_agent].name)
       ELSE d1

\* AgentManager.process_message of manager i: its agents save and log with
\* the session_id they were constructed with. The agent that processed the
\* input logs it when it returns; a reset is answered before any agent runs.
SessionTurn(i) ==
    /\ Len(db.conversations) < MaxConversations
    /\ \E user_input \in SessionInputs :
        \E n \in {process_message(managers.by[i].session, user_input, Quiet)} :
           /\ managers' = [by |-> [managers.by EXCEPT
                                    ![i].session = [n EXCEPT !.orders = <<>>]],
                           last |-> i]
           /\ db' = SessionRows(db, managers.by[i], n, user_input)
    /\ UNCHANGED <<current_agent, context, agents, heap, llm, orders, result, abandoned>>
    /\ UNCHANGED <<call, threads>>

NextSessions == \E i \in DOMAIN SessionIds : SessionTurn(i)

SpecSessions == InitSessions /\ [][NextSessions]_vars

\* The rows a step adds to a table.
Added(before, after) == SubSeq(after, Len(before) + 1, Len(after))

\* C22: a turn of one session leaves the AgentManager of every other session
\* as it was (active handler, phases, context, records), and every order and
\* every conversation row it writes carries the session_id of that session.
C22_SessionsIndependent ==
    [][LET i == managers'.last
       IN /\ \A j \in DOMAIN managers.by \ {i} : managers'.by[j] = managers.by[j]
          /\ SubSeq(db'.orders, 1, Len(db.orders)) = db.orders
          /\ SubSeq(db'.conversations, 1, Len(db.conversations)) = db.conversations
          /\ \A k \in DOMAIN Added(db.orders, db'.orders) :
                Added(db.orders, db'.orders)[k].session_id = managers.by[i].session_id
          /\ \A k \in DOMAIN Added(db.conversations, db'.conversations) :
                Added(db.conversations, db'.conversations)[k].session_id
                    = managers.by[i].session_id]_vars

\* The second session has persisted an order while the first waits for the
\* description of another, and the turns of the two were interleaved.
C22_InterleavedSessions ==
    /\ managers.by # <<>>
    /\ \E k \in DOMAIN db.orders : db.orders[k].session_id = SessionIds[2]
    /\ AwaitingDescription(managers.by[1].session)
    /\ \E a, b, c \in DOMAIN db.conversations :
        /\ a < b /\ b < c
        /\ db.conversations[a].session_id = SessionIds[2]
        /\ db.conversations[b].session_id = SessionIds[1]
        /\ db.conversations[c].session_id = SessionIds[2]

\* ------------------------------------------------- two calls on one session

\* The inputs of two calls made on one AgentManager at once: texts that are
\* not reset phrases, so self.context is one dict throughout and a handler's
\* self.order_data is the context's dict whenever a call waits.
OverlapInputs == Typed

\* A call that has not started.
Issued(user_input) ==
    [pc |-> "issued", user_input |-> user_input, agent |-> "none",
     result |-> InitialSession(FALSE, FALSE).result]

\* A session after at most ScriptLen turns, and two calls issued on it from
\* two threads. AgentManager.process_message takes no lock.
InitOverlap ==
    \E w \in Scripts(ScriptLen), x1 \in OverlapInputs, x2 \in OverlapInputs :
        LET n == Run(InitialSession(FALSE, FALSE), w)
        IN /\ current_agent = n.current_agent
           /\ context = n.context
           /\ agents = n.agents
           /\ heap = n.heap
           /\ llm = n.llm
           /\ orders = n.orders
           /\ result = n.result
           /\ abandoned = [tracking |-> FALSE, texts |-> {}, quantities |-> {}]
           /\ call = NoCall
           /\ managers = NoManagers
           /\ db = NoDb
           /\ threads = [from |-> n, calls |-> <<Issued(x1), Issued(x2)>>]

\* The call goes as far as save_order, which writes the row and waits for
\* sqlite with the interpreter lock released.
WaitsInSave(s, user_input) ==
    /\ ~IsResetPhrase(user_input)
    /\ Confirming(s)
    /\ InList(Lower(user_input), confirmation_tokens)
    /\ save_order(Record(s), TRUE).exc = "none"

\* Thread t runs AgentManager.process_message up to the point where it waits:
\* inside save_order if the turn saves, at the return otherwise.
BeginCall(t) ==
    LET c == threads.calls[t]
        n == process_message(St, c.user_input, Quiet)
    IN /\ c.pc = "issued"
       /\ IF WaitsInSave(St, c.user_input)
          THEN /\ orders' = Append(orders, save_order(Record(St), TRUE).row)
               /\ threads' = [threads EXCEPT !.calls[t].pc = "saving",
                                             !.calls[t].agent = current_agent]
               /\ UNCHANGED <<current_agent, context, agents, heap, llm, result>>
          ELSE /\ Becomes(n)
               /\ threads' = [threads EXCEPT !.calls[t].pc = "returned",
                                             !.calls[t].result = n.result]
       /\ UNCHANGED <<abandoned, call, managers, db>>

\* Thread t goes on after save_order in the handler it was dispatched to and
\* returns through the handoff of AgentManager.process_message.
EndCall(t) ==
    LET c == threads.calls[t]
        after == IF c.agent = "GenericOrderAgent"
                 THEN Generic_after_save(St) ELSE Bulk_after_save(St)
        n == Collect(Handoff(after))
    IN /\ c.pc = "saving"
       /\ Becomes(n)
       /\ threads' = [threads EXCEPT !.calls[t].pc = "returned",
                                     !.calls[t].result = n.result]
       /\ UNCHANGED <<abandoned, call, managers, db>>

NextOverlap == \E t \in {1, 2} : BeginCall(t) \/ EndCall(t)

SpecOverlap == InitOverlap /\ [][NextOverlap]_vars

\* The session and the two replies are those of the call first and then the
\* call second, each run to its end.
AsOneAfterTheOther(first, second) ==
    LET a == process_message(threads.from, threads.calls[first].user_input, Quiet)
        b == process_message(a, threads.calls[second].user_input, Quiet)
    IN /\ current_agent = b.current_agent
       /\ context = b.context
       /\ agents = b.agents
       /\ heap = b.heap
       /\ orders = b.orders
       /\ threads.calls[first].result = a.result
       /\ threads.calls[second].result = b.result

\* C23: two calls issued at once on one session leave the state, the replies
\* and the persisted orders of the two calls run one after the other.
C23_OverlapAsSequential ==
    (\A t \in {1, 2} : threads.calls[t].pc = "returned") =>
        AsOneAfterTheOther(1, 2) \/ AsOneAfterTheOther(2, 1)

\* ------------------------------------------------------------ the accessors

\* AgentManager.get_current_agent_name: the name of the current agent; the
\* session is left as it is.
get_current_agent_name(s) == [session |-> s, returned |-> s.agents[s.current_agent].name]

\* AgentManager.get_context: self.context.copy(), a new dict with the items
\* of the context. The item order_data is the reference the context holds,
\* so the dict it names in the heap is the session's.
get_context(s) == [session |-> s, returned |-> s.context]

\* The caller assigns returned[k] = v on the dict get_context returned.
CallerSetsItem(p, k, v) == [p EXCEPT !.returned = Put(@, k, v)]

\* The caller assigns returned["order_data"][k] = v.
CallerSetsRecordItem(p, k, v) ==
    [p EXCEPT !.session.heap[p.returned["order_data"]] = Put(@, k, v)]

\* What a caller writes into the value it was given.
CallerTexts == {in_generic, txt_None}

\* C24: the accessors leave the session as it is, and what the caller then
\* assigns in the returned context, or in the record inside it, leaves the
\* session's context and record as they are.
C24_SnapshotReadOnly ==
    LET p == get_context(St)
    IN /\ get_current_agent_name(St).session = St
       /\ p.session = St
       /\ \A k \in {"state", "current_agent", "title", "brand_preference"}, v \in CallerTexts :
            /\ CallerSetsItem(p, k, v).session = St
            /\ CallerSetsRecordItem(p, k, v).session.context = context
            /\ Record(CallerSetsRecordItem(p, k, v).session) = Record(St)

\* The phases in which the Orchestrator expects an input.
ExpectedPhases == {"waiting_for_title", "waiting_for_description"}

\* C25: every turn the Orchestrator processes finds it in waiting_for_title
\* or in waiting_for_description, so the branch for other states is never
\* taken.
C25_OrchestratorPhase ==
    [][MainTurn => agents["MainAgent"].state \in ExpectedPhases]_vars

\* The inputs that are no confirmation token, typed exactly or with spaces
\* around, and no reset phrase.
NotConfirmation ==
    {x \in Typed \cup {in_brand, in_yes_from} :
        ~InList(Lower(strip(x)), confirmation_tokens)}

txt_let_me_know == "Let me know if you want to make any changes to the order."

\* C26: in confirming, an input that is no confirmation token leaves the
\* handler active and in confirming, the record and the persisted orders as
\* they are, asks for no handoff and is answered by the request for changes,
\* whatever sqlite would do.
C26_ConfirmingKept ==
    Confirming(St) =>
        \A x \in NotConfirmation, db_ok \in BOOLEAN :
            LET n == process_message(St, x, Env(NoLLM, "raise", db_ok))
            IN /\ n.current_agent = current_agent
               /\ n.agents = agents
               /\ n.context["state"] = "confirming"
               /\ Record(n) = Record(St)
               /\ n.orders = orders
               /\ ~Has(n.context, "next_agent")
               /\ n.result = Returned([msg |-> txt_let_me_know])

\* A handler in confirming has just answered an input that is no confirmation
\* token.
C26_AskedForChanges ==
    /\ Confirming(St)
    /\ result = Returned([msg |-> txt_let_me_know])
    /\ Has(Record(St), "brand_preference")

\* The turn is one in which an order handler in confirming is given a
\* confirmation token.
ConfirmationTurn(s, x) ==
    /\ ~IsResetPhrase(x)
    /\ Confirming(s)
    /\ InList(Lower(x), confirmation_tokens)

\* C27: a turn in which a handler in confirming is given a confirmation token
\* adds exactly one persisted order, and every other turn leaves the
\* persisted orders as they are, sqlite accepting every write.
C27_OneOrderPerConfirmation ==
    \A x \in Inputs, outcome \in LLMAsked(St), executor \in ExecutorAsked(St) :
        LET n == process_message(St, x, Env(outcome, executor, TRUE))
        IN IF ConfirmationTurn(St, x)
           THEN Len(n.orders) = Len(orders) + 1 /\ SubSeq(n.orders, 1, Len(orders)) = orders
           ELSE n.orders = orders

\* What a user answers when asked for a preference.
PreferenceInputs == Typed \cup {in_YES, in_yes_padded, in_yes_from, in_brand}

\* The state in which a handler takes the preference itself.
CollectingPhase(handler) ==
    IF handler = "GenericOrderAgent" THEN "collecting_brand" ELSE "collecting_supplier"

\* C28: a handler asking for a preference goes to collecting it on an
\* affirmative token, the record as it was, and on any other input sets
\* brand_preference to "None" and goes to confirming; a handler collecting the
\* preference stores the input as brand_preference and goes to confirming.
C28_PreferencePhases ==
    current_agent \in OrderHandlers =>
        \A x \in PreferenceInputs :
            LET phase == agents[current_agent].state
                n == process_message(St, x, Quiet)
            IN /\ phase \in {"asking_brand_preference", "asking_supplier_preference"} =>
                    IF InList(Lower(strip(x)), affirmative_tokens)
                    THEN /\ n.agents[current_agent].state = CollectingPhase(current_agent)
                         /\ Record(n) = Record(St)
                    ELSE /\ n.agents[current_agent].state = "confirming"
                         /\ Record(n) = Put(Record(St), "brand_preference", txt_None)
               /\ phase = CollectingPhase(current_agent) =>
                    /\ n.agents[current_agent].state = "confirming"
                    /\ Record(n) = Put(Record(St), "brand_preference", x)

\* d holds product_name or quantity only along with title and description.
CollectedInOrder(d) ==
    Has(d, "product_name") \/ Has(d, "quantity") =>
        Has(d, "title") /\ Has(d, "description")

LogInputs == {in_reset, in_yes, in_generic}

\* The longest conversation logged.
MaxTurns == 6

\* One session on a database that keeps the conversation; turns is the
\* history of the turns dispatched to an agent: the input, the key of the
\* agent and what the call did.
InitLog ==
    /\ \E n \in {InitialSession(FALSE, FALSE)} :
            /\ current_agent = n.current_agent
            /\ context = n.context
            /\ agents = n.agents
            /\ heap = n.heap
            /\ llm = n.llm
            /\ orders = n.orders
            /\ result = n.result
    /\ abandoned = [tracking |-> FALSE, texts |-> {}, quantities |-> {}]
    /\ call = NoCall
    /\ managers = NoManagers
    /\ db = [orders |-> <<>>, conversations |-> <<>>, turns |-> <<>>]
    /\ threads = NoThreads

\* The tables after a turn of the logged session that took s to n: the order
\* row if one was saved, then the row of log_interaction, which ends the
\* agent's process_message and which no raise reaches; a reset phrase is
\* answered before any agent is called.
RowsOfTurn(d, s, n, user_input) ==
    LET dispatched == ~IsResetPhrase(user_input)
        d1 == IF Len(n.orders) > Len(s.orders)
              THEN insert_order(d, SessionIds[1], n.orders[Len(n.orders)])
              ELSE d
        d2 == IF dispatched /\ n.result.kind = "return"
              THEN log_conversation(d1, SessionIds[1], user_input,
                                    n.result.response,
                                    s.agents[s.current_agent].name)
              ELSE d1
    IN IF dispatched
       THEN [d2 EXCEPT !.turns = Append(@, [user_input |-> user_input,
                                            agent |-> s.current_agent,
                                            result |-> n.result])]
       ELSE d2

\* AgentManager.process_message with the rows it leaves.
LogTurn ==
    /\ Len(db.turns) < MaxTurns
    /\ \E user_input \in LogInputs :
        \E n \in {process_message(St, user_input, Quiet)} :
            /\ Becomes(n)
            /\ db' = RowsOfTurn(db, St, n, user_input)
    /\ UNCHANGED <<abandoned, call, managers, threads>>

NextLog == LogTurn

SpecLog == InitLog /\ [][NextLog]_vars

\* C31: the log has one entry for every turn an agent processed, in the order
\* of the turns, holding the input of the turn, the reply returned for it and
\* the name of the agent that processed it.
C31_OneEntryPerTurn ==
    /\ Len(db.conversations) = Len(db.turns)
    /\ \A i \in 1..Len(db.turns) :
        i <= Len(db.conversations) =>
            /\ db.conversations[i].user_input = db.turns[i].user_input
            /\ db.conversations[i].chatbot_response = db.turns[i].result.response
            /\ db.conversations[i].agent = agents[db.turns[i].agent].name

\* The five values of a persisted row, as the values json.loads gives for the
\* keys of the final output, in their order.
RowValues(row) ==
    [i \in DOMAIN output_keys |->
        <<output_keys[i].text,
          IF output_keys[i].key = "quantity"
          THEN PyInt(row[output_keys[i].key])
          ELSE PyStr(row[output_keys[i].key])>>]

\* C32: the JSON text of a confirmation reply parses, and its five values are
\* those of the order persisted in the turn.
C32_OutputIsPersistedOrder ==
    Confirming(St) =>
        \A x \in ConfirmInputs, executor \in ExecutorAsked(St) :
            LET n == process_message(St, x, Env(NoLLM, executor, TRUE))
                parsed == json_loads(n.result.response.final_output)
            IN Len(n.orders) > Len(orders) =>
                    /\ n.result.response.msg \in SavedReplies
                    /\ parsed.ok
                    /\ parsed.value = RowValues(n.orders[Len(n.orders)])

\* An order has just been persisted with a brand the user named.
C32_ConfirmedWithBrand ==
    /\ result.kind = "return"
    /\ result.response.msg \in SavedReplies
    /\ orders # <<>>
    /\ orders[Len(orders)].brand_preference # txt_None
    /\ json_loads(result.response.final_output).value = RowValues(orders[Len(orders)])

\* ------------------------------------------------------------- extraction

\* "order 0 chairs"
d_zero_chairs ==
    <<"o","r","d","e","r"," ","0"," ","c","h","a","i","r","s">>
\* "007 chairs please"
d_leading_zeros ==
    <<"0","0","7"," ","c","h","a","i","r","s"," ","p","l","e","a","s","e">>
\* "blue<tab>pens"
d_tabbed ==
    <<"b","l","u","e","\t","p","e","n","s">>
\* "  two   red<tab>pens  now "
d_spaced ==
    <<" "," ","t","w","o"," "," "," ","r","e","d","\t","p","e","n","s"," "," ","n","o",
      "w"," ">>
\* "abc123def for me"
d_digits_in_word ==
    <<"a","b","c","1","2","3","d","e","f"," ","f","o","r"," ","m","e">>
\* "1,000 units now"
d_thousands ==
    <<"1",",","0","0","0"," ","u","n","i","t","s"," ","n","o","w">>
\* "-5 lamps"
d_negative ==
    <<"-","5"," ","l","a","m","p","s">>
\* "stapler"
d_one_word ==
    <<"s","t","a","p","l","e","r">>
\* "12"
d_only_number ==
    <<"1","2">>
\* "0"
d_zero_alone ==
    <<"0">>

\* The descriptions extraction is run on: those of the classifier, and ones
\* with a zero, leading zeros, digits inside a word or around a comma or after
\* a sign, fewer than three words, and words apart by tabs and several blanks.
ExtractDescriptions ==
    Descriptions \cup
        {d_zero_chairs, d_leading_zeros, d_tabbed, d_spaced, d_digits_in_word,
         d_thousands, d_negative, d_one_word, d_only_number, d_zero_alone}

\* The record an order handler is handed: title, description and order_type.
HandedOver(description, order_type) ==
    Put(Put(Put(EmptyDict, "title", in_title), "description", description),
        "order_type", order_type)

\* A call of _fallback_extraction about to be made by either handler on the
\* record it was handed.
InitExtract ==
    /\ \E n \in {InitialSession(FALSE, FALSE)} :
            /\ current_agent = n.current_agent
            /\ context = n.context
            /\ agents = n.agents
            /\ heap = n.heap
            /\ llm = n.llm
            /\ orders = n.orders
            /\ result = n.result
    /\ abandoned = [tracking |-> FALSE, texts |-> {}, quantities |-> {}]
    /\ \E agent \in OrderHandlers, description \in ExtractDescriptions,
          order_type \in {txt_generic, txt_bulk} :
            call = [made |-> FALSE, agent |-> agent, description |-> description,
                    order_data |-> HandedOver(description, order_type)]
    /\ managers = NoManagers
    /\ db = NoDb
    /\ threads = NoThreads

\* _fallback_extraction of the handler returns, having written into
\* self.order_data, or int() raises before anything is written.
FallbackExtraction ==
    /\ ~call.made
    /\ \E raised \in {extraction_raises(call.description)} :
        call' = [call EXCEPT
                    !.made = TRUE,
                    !.order_data =
                        IF raised THEN @
                        ELSE IF call.agent = "GenericOrderAgent"
                        THEN Generic_fallback_extraction(@, call.description)
                        ELSE Bulk_fallback_extraction(@, call.description)]
    /\ UNCHANGED <<current_agent, context, agents, heap, llm, orders, result, abandoned>>
    /\ UNCHANGED beside

NextExtract == FallbackExtraction

SpecExtract == InitExtract /\ [][NextExtract]_vars

\* C33: after extraction the record holds the first integer literal of the
\* description as quantity when there is one, and as product_name the second
\* and third words joined by one blank when there are three words or more,
\* the description itself otherwise.
C33_ExtractionResult ==
    call.made =>
        LET words == split(call.description)
            qm == quantity_match(call.description)
        IN /\ Has(call.order_data, "product_name")
           /\ call.order_data["product_name"] =
                IF Len(words) >= 3
                THEN words[2] \o <<" ">> \o words[3]
                ELSE call.description
           /\ qm # <<>> =>
                /\ Has(call.order_data, "quantity")
                /\ call.order_data["quantity"] = int(qm)

\* Descriptions with and without a zero as first integer literal.
QuantityDescriptions == {d_zero_chairs, d_zero_alone, d_leading_zeros, in_generic}

\* C34: whatever description is entered next and carried through to a
\* confirmation, every persisted order has a quantity of 1 or more.
C34_PositiveQuantity ==
    \A d \in QuantityDescriptions :
        LET n == Run(St, <<d, in_brand, in_brand, in_yes>>)
        IN \A i \in DOMAIN n.orders :
                n.orders[i].quantity \in Nat /\ n.orders[i].quantity >= 1

\* ----------------------------------------------------- the two order handlers

\* The phase of one order handler that corresponds to a phase of the other,
\* and the key and the name of the other handler.
Counterpart(v) ==
    CASE v = "asking_brand_preference" -> "asking_supplier_preference"
      [] v = "asking_supplier_preference" -> "asking_brand_preference"
      [] v = "collecting_brand" -> "collecting_supplier"
      [] v = "collecting_supplier" -> "collecting_brand"
      [] v = "GenericOrderAgent" -> "BulkOrderAgent"
      [] v = "BulkOrderAgent" -> "GenericOrderAgent"
      [] v = "Generic" -> "Bulk"
      [] v = "Bulk" -> "Generic"
      [] OTHER -> v

\* The session with the two order handlers in each other's place: the same
\* records, orders and Orchestrator.
Mirrored(s) ==
    [s EXCEPT
        !.current_agent = Counterpart(@),
        !.agents = [k \in AgentKeys |->
                        IF k = "MainAgent" THEN s.agents[k]
                        ELSE [s.agents[Counterpart(k)] EXCEPT
                                !.name = s.agents[k].name,
                                !.state = Counterpart(@)]],
        !.context = [k \in DOMAIN s.context |->
                        IF k \in {"current_agent", "state"}
                        THEN Counterpart(s.context[k]) ELSE s.context[k]]]

\* The dict without the quantity an extraction tool sets by default, which
\* is the one thing the two handlers write differently.
WithoutDefault(d) ==
    IF Has(d, "description") /\ quantity_match(d["description"]) = <<>>
    THEN Del(d, "quantity") ELSE d

\* What the two handlers have to agree on after a turn: the active agent, the
\* phases, the context, every record, the persisted orders and whether the
\* call returned.
Agreed(s) ==
    [current_agent |-> s.current_agent,
     agents |-> s.agents,
     context |-> s.context,
     heap |-> [a \in Addr |-> WithoutDefault(s.heap[a])],
     orders |-> s.orders,
     outcome |-> <<s.result.kind, s.result.exc>>]

\* C35: with an order handler active, the turn of the other handler put in its
\* place, from the same record and on the same input, ends in the
\* corresponding phase with the same record, the same handoff and the same
\* persisted order, the default quantity and the wording of the reply apart.
C35_HandlersCorrespond ==
    current_agent \in OrderHandlers =>
        \A x \in Inputs, executor \in ExecutorAsked(St), db_ok \in DbAsked(St) :
            LET env == Env(NoLLM, executor, db_ok)
            IN Agreed(process_message(Mirrored(St), x, env))
                    = Agreed(Mirrored(process_message(St, x, env)))

\* The Bulk handler has asked for the supplier, in the phase that corresponds
\* to collecting_brand.
C35_BulkCollectingSupplier ==
    /\ current_agent = "BulkOrderAgent"
    /\ agents["BulkOrderAgent"].state = "collecting_supplier"
    /\ result.kind = "return"
    /\ Has(Record(St), "quantity")

\* ---------------------------------------------------------------------------
\* C36: whenever the router makes GenericOrderAgent or BulkOrderAgent the
\* active handler, the private phase of that handler is collecting_details;
\* also when an earlier order was abandoned by a reset while the handler was
\* asking for the preference, collecting it or confirming.
C36_HandoffStartsCollecting ==
    [][(current_agent = "MainAgent" /\ current_agent' \in OrderHandlers)
          => agents'[current_agent'].state = "collecting_details"]_vars

\* ---------------------------------------------------------------------------
\* C37: at every turn boundary the phase label held in the context equals the
\* private phase of the active handler; also after a handoff, after a
\* confirmed order and after a reset.
C37_ContextPhaseIsPrivatePhase ==
    context["state"] = agents[current_agent].state

\* ---------------------------------------------------------------------------
\* C38: the active handler is always one of the three registered handlers and
\* changes in three kinds of turn only: a reset makes the Orchestrator active,
\* the Orchestrator's turn in waiting_for_description makes GenericOrderAgent
\* or BulkOrderAgent active, and a confirmation that persisted the order makes
\* the Orchestrator active; every other turn leaves it unchanged.
HandlerAfter(s, user_input, n) ==
    IF IsResetPhrase(user_input) THEN {"MainAgent"}
    ELSE IF n.result.kind # "return" THEN {s.current_agent}
    ELSE IF s.current_agent = "MainAgent"
            /\ s.agents["MainAgent"].state = "waiting_for_description"
         THEN OrderHandlers
    ELSE IF Confirming(s) /\ Len(n.orders) > Len(s.orders) THEN {"MainAgent"}
    ELSE {s.current_agent}

Backend == InitialSession(TRUE, TRUE)

\* A session whose LLMManager found no API key: _initialize_llm returned None,
\* so self.llm is None and no agent has an executor.
NoBackend == InitialSession(FALSE, FALSE)

\* The first session is the session of the variables above, the second is
\* managers.by[1].session.
InitTwin ==
    /\ \E n \in {NoBackend} :
            /\ current_agent = n.current_agent
            /\ context = n.context
            /\ agents = n.agents
            /\ heap = n.heap
            /\ llm = n.llm
            /\ orders = n.orders
            /\ result = n.result
            /\ managers = [by |-> <<[session_id |-> SessionIds[2], session |-> n]>>,
                           last |-> 0]
    /\ abandoned = [tracking |-> FALSE, texts |-> {}, quantities |-> {}]
    /\ call = NoCall
    /\ db = NoDb
    /\ threads = NoThreads

Twin == managers.by[1].session

\* One input given to both sessions. Each session asks its own classifier and
\* its own executor; both write to the same database, which accepts the
\* writes of the turn or refuses them.
TwinTurn ==
    /\ Len(orders) < MaxOrders
    /\ Len(Twin.orders) < MaxOrders
    /\ \E user_input \in Inputs, db_ok \in DbAsked(St) \cup DbAsked(Twin) :
        \E outcome1 \in LLMAsked(St), executor1 \in ExecutorAsked(St),
           outcome2 \in LLMAsked(Twin), executor2 \in ExecutorAsked(Twin) :
            \E n1 \in {process_message(St, user_input, Env(outcome1, executor1, db_ok))},
               n2 \in {process_message(Twin, user_input, Env(outcome2, executor2, db_ok))} :
                /\ Becomes(n1)
                /\ managers' = [managers EXCEPT !.by[1].session = n2]
    /\ UNCHANGED <<abandoned, call, db, threads>>

NextTwin == TwinTurn

SpecTwin == InitTwin /\ [][NextTwin]_vars

Collecting(s) ==
    /\ s.current_agent \in OrderHandlers
    /\ s.agents[s.current_agent].state = "collecting_details"

CollectingTexts == Typed \cup {in_brand, d_zero_chairs, d_one_word}

C40_TextWithoutEffect ==
    Collecting(St) =>
        \A executor \in ExecutorAsked(St) :
            \A x \in CollectingTexts, y \in CollectingTexts :
                \E n \in {process_message(St, x, Env(NoLLM, executor, TRUE))},
                   m \in {process_message(St, y, Env(NoLLM, executor, TRUE))} :
                    /\ n.agents = m.agents
                    /\ n.heap = m.heap
                    /\ n.context = m.context
                    /\ n.current_agent = m.current_agent
                    /\ n.orders = m.orders
                    /\ n.result = m.result

\* An order handler is about to extract from a stored description that holds
\* an integer literal.
C40_CollectingStoredDescription ==
    /\ Collecting(St)
    /\ Has(Record(St), "description")
    /\ quantity_match(Record(St)["description"]) # <<>>

====
